---- MODULE Spec2Model ----
(***************************************************************************)
(* Funding-and-negotiation state machine of the crowdfunding backend:      *)
(* Request -> Conversation -> Offer -> Project -> Pledge, with the payment *)
(* webhooks that reconcile the gateway with the local store.               *)
(*                                                                         *)
(* Every table is a sequence whose index is the row's primary key.  Each   *)
(* route handler is one action; the handlers whose reads and commit can be *)
(* separated by another handler's commit also exist as Begin/Read/Commit   *)
(* steps over the variable txns (used by SpecConc only).                   *)
(***************************************************************************)
EXTENDS Integers, Sequences, FiniteSets, Bags, TLC

\* ------------------------------------------------------------------ bounds
MaxProjects == 1
MaxPledges == 2
MaxRequests == 1
MaxConversations == 2
MaxMessages == 4
MaxNotifications == 5
MaxTaught == 3
MaxOffered == 2
MaxBlacklist == 2
MaxTransfers == 2
MaxHandlers == 2
MaxGoal == 2
MaxFunding == 40

\* ------------------------------------------------------------- input sets
Students == {"s1", "s2"}
Teachers == {"t1", "t2"}
Admins == {"admin"}
Users == Students \cup Teachers \cup Admins

\* Python's None in an Optional[int] column or field
None == -1

\* the outcome of a validation that raises
Rejected == -2

\* models.py:7-11
UserRole(u) ==
    IF u \in Teachers THEN "teacher" ELSE IF u \in Admins THEN "admin" ELSE "student"

\* models.py:13-20
ProjectStatus ==
    {"draft", "funding", "successful", "pending_confirmation", "completed",
     "cancelled", "on_hold"}

\* models.py:22-25
PledgeStatus == {"pending", "captured", "refunded"}

\* models.py:27-32
RequestStatus == {"open", "negotiating", "accepted", "rejected", "cancelled"}

\* models.py:39-41
ConversationStatus == {"open", "closed"}

\* models.py:49-52
OfferStatus == {"pending", "accepted", "rejected"}

Amounts == {1}
Goals == {1, 2}

\* the users who call the funding handlers: the teacher owning the projects,
\* the students who pledge, and the admin
Owners == {"t1"}
Callers == Owners \cup Students \cup Admins

\* request bodies of POST /projects/ (schemas.py:43-53), one per branch of
\* projects.py:208-214
ProjectInputs ==
    {[funding_goal |-> 2, is_series |-> FALSE, price_per_video |-> None, num_videos |-> None],
     [funding_goal |-> 1, is_series |-> FALSE, price_per_video |-> None, num_videos |-> None],
     [funding_goal |-> 1, is_series |-> TRUE, price_per_video |-> 1, num_videos |-> 2],
     [funding_goal |-> 2, is_series |-> TRUE, price_per_video |-> None, num_videos |-> 1],
     [funding_goal |-> 2, is_series |-> FALSE, price_per_video |-> None, num_videos |-> 1]}

\* the bodies of ProjectInputs that ask for a single-video project
FlatInputs == {in \in ProjectInputs : ~in.is_series /\ in.num_videos = None}

\* request bodies of POST /conversations/{id}/offer (schemas.py:155-164)
OfferInputs ==
    {[offer_price |-> 2, is_series |-> FALSE, price_per_video |-> None, num_videos |-> None],
     [offer_price |-> 1, is_series |-> TRUE, price_per_video |-> 1, num_videos |-> 2]}

\* request bodies of PATCH /projects/{id} (schemas.py:55-64): the keys set
PatchInputs ==
    [status : ProjectStatus, funding_goal : {None}]
        \cup [status : {"unset", "funding"}, funding_goal : Goals]

\* ------------------------------------------------------------------- state
VARIABLES
    users,          \* User rows that handlers change: stripe_account_id (set
                    \* or not), charges_enabled, payouts_enabled
    projects,       \* Project table
    pledges,        \* Pledge table
    requests,       \* Request table
    conversations,  \* Conversation table
    messages,       \* Message table
    blacklist,      \* RequestBlacklist rows, a bag of <<request_id, teacher_id>>
    notifications,  \* Notification rows, a bag of [user_id, kind, ref]
    transfers,      \* gateway: payout transfers requested, in order
    refunds,        \* gateway: refunds issued, a bag of payment intents
    txns,           \* handlers in flight: what each has read so far
    last            \* the response of the handler that ran last

db == <<users, projects, pledges, requests, conversations, messages, blacklist,
        notifications>>
gateway == <<transfers, refunds>>
vars == <<users, projects, pledges, requests, conversations, messages, blacklist,
          notifications, transfers, refunds, txns, last>>

negotiation == <<requests, conversations, messages, blacklist>>

Idle == [op |-> "idle"]

Response(op, id, code, detail) ==
    [op |-> op, id |-> id, code |-> code, detail |-> detail]

\* models.py:69-71: the defaults of a User row
NewUser ==
    [stripe_account_id |-> FALSE, charges_enabled |-> FALSE, payouts_enabled |-> FALSE]

Init ==
    /\ users = [u \in Users |-> NewUser]
    /\ projects = <<>>
    /\ pledges = <<>>
    /\ requests = <<>>
    /\ conversations = <<>>
    /\ messages = <<>>
    /\ blacklist = EmptyBag
    /\ notifications = EmptyBag
    /\ transfers = <<>>
    /\ refunds = EmptyBag
    /\ txns = [h \in 1..MaxHandlers |-> Idle]
    /\ last = Response("init", None, 0, "")

\* ----------------------------------------------------------------- helpers
RECURSIVE SumAmounts(_, _)
SumAmounts(tbl, S) ==
    IF S = {} THEN 0
    ELSE LET k == CHOOSE y \in S : TRUE IN tbl[k].amount + SumAmounts(tbl, S \ {k})

Notification(user_id, kind, ref) == [user_id |-> user_id, kind |-> kind, ref |-> ref]

NotifRoom(n) == BagCardinality(notifications) + n <= MaxNotifications

PledgesOf(p) == {k \in DOMAIN pledges : pledges[k].project_id = p}

CapturedOf(p) == {k \in PledgesOf(p) : pledges[k].status = "captured"}

CapturedSum(p) == SumAmounts(pledges, CapturedOf(p))

\* the rows of bag, a Notification table, of one kind that refer to project p
NotesIn(bag, kind, p) ==
    LET S == {n \in BagToSet(bag) : n.kind = kind /\ n.ref = p}
        sum[T \in SUBSET S] ==
            IF T = {} THEN 0
            ELSE LET n == CHOOSE x \in T : TRUE
                 IN CopiesIn(n, bag) + sum[T \ {n}]
    IN sum[S]

NoteCount(kind, p) == NotesIn(notifications, kind, p)

\* the payout transfers the gateway was asked to make for project p
TransfersOf(p) == {i \in DOMAIN transfers : transfers[i].project_id = p}

\* no handler is between its first read and its commit
Quiescent == \A h \in DOMAIN txns : txns[h] = Idle

\* ------------------------------------------------- projects.py: create
\* projects.py:208-214: the funding goal a create call stores, or "reject"
SeriesGoal(funding_goal, is_series, price_per_video, num_videos) ==
    IF is_series /\ price_per_video # None /\ price_per_video # 0
       /\ num_videos # None /\ num_videos # 0 /\ num_videos > 0
    THEN price_per_video * num_videos
    ELSE IF is_series /\ (price_per_video = None \/ num_videos = None \/ num_videos <= 0)
    THEN Rejected
    ELSE IF ~is_series /\ (price_per_video # None \/ num_videos # None)
    THEN Rejected
    ELSE funding_goal

NewProject(teacher, goal, origin, is_series, num_videos) ==
    [teacher_id |-> teacher, funding_goal |-> goal, current_funding |-> 0,
     status |-> "funding", stripe_transfer_id |-> None,
     origin_request_id |-> origin, is_series |-> is_series,
     num_videos |-> num_videos, videos |-> 0]

\* projects.py:199-225
create_project(u, funding_goal, is_series, price_per_video, num_videos) ==
    LET goal == SeriesGoal(funding_goal, is_series, price_per_video, num_videos) IN
    /\ Len(projects) < MaxProjects
    /\ IF UserRole(u) # "teacher" /\ UserRole(u) # "admin"
       THEN /\ last' = Response("create_project", None, 403, "role")
            /\ UNCHANGED projects
       ELSE IF goal = Rejected
       THEN /\ last' = Response("create_project", None, 400, "series")
            /\ UNCHANGED projects
       ELSE /\ projects' = Append(projects, NewProject(u, goal, None, is_series, num_videos))
            /\ last' = Response("create_project", Len(projects) + 1, 200, "")
    /\ UNCHANGED <<users, pledges, negotiation, notifications, gateway, txns>>

\* projects.py:358-360: a PATCH may not change the price of an active project
PriceLocked(p, data) ==
    /\ data.funding_goal # None
    /\ data.funding_goal # projects[p].funding_goal
    /\ (projects[p].status # "draft" \/ projects[p].origin_request_id # None)

\* projects.py:362-363: setattr for every key the PATCH body sets
Patched(row, data) ==
    [row EXCEPT !.status = IF data.status = "unset" THEN @ ELSE data.status,
                !.funding_goal = IF data.funding_goal = None THEN @ ELSE data.funding_goal]

\* projects.py:343-369
update_project(u, p, data) ==
    /\ IF p \notin DOMAIN projects
       THEN /\ last' = Response("update_project", p, 404, "")
            /\ UNCHANGED projects
       ELSE IF projects[p].teacher_id # u /\ UserRole(u) # "admin"
       THEN /\ last' = Response("update_project", p, 403, "")
            /\ UNCHANGED projects
       ELSE IF PriceLocked(p, data)
       THEN /\ last' = Response("update_project", p, 400, "price")
            /\ UNCHANGED projects
       ELSE /\ projects' = [projects EXCEPT ![p] = Patched(@, data)]
            /\ last' = Response("update_project", p, 200, "")
    /\ UNCHANGED <<users, pledges, negotiation, notifications, gateway, txns>>

\* ------------------------------------------------- pledges.py: checkout
NewPledge(u, p, amount) ==
    [user_id |-> u, project_id |-> p, amount |-> amount, status |-> "pending",
     payment_intent_id |-> None, checkout_session_id |-> None]

\* a project in any status accepts pledges
FundingAnyStatus(p) == TRUE

\* pledges.py:58: the project accepts pledges
OpenForFunding(p) == projects[p].status = "funding"

\* pledges.py:97-100: what a failed checkout creation leaves of the pledge
\* table: the pledge row was committed at line 69, rollback() undoes nothing
AfterCheckoutFailure(tbl, row) == Append(tbl, row)

\* pledges.py:46-100; gatewayOk is the outcome of stripe.checkout.Session.create
create_pledge_checkout_session(u, p, amount, gatewayOk) ==
    /\ IF p \notin DOMAIN projects
       THEN /\ last' = Response("create_pledge", p, 404, "")
            /\ UNCHANGED pledges
       ELSE IF ~OpenForFunding(p)
       THEN /\ last' = Response("create_pledge", p, 400, "not_funding")
            /\ UNCHANGED pledges
       ELSE /\ Len(pledges) < MaxPledges
            /\ IF gatewayOk
               THEN /\ pledges' = Append(pledges,
                         [NewPledge(u, p, amount) EXCEPT
                             !.checkout_session_id = Len(pledges) + 1])
                    /\ last' = Response("create_pledge", p, 201, "")
               ELSE /\ pledges' = AfterCheckoutFailure(pledges, NewPledge(u, p, amount))
                    /\ last' = Response("create_pledge", p, 400, "stripe_error")
    /\ UNCHANGED <<users, projects, negotiation, notifications, gateway, txns>>

\* -------------------------------------- pledges.py: checkout.session.completed
\* the guard of pledges.py:176 without its status test: any existing pledge
CaptureAnyStatus(tbl, k) == k \in DOMAIN tbl

\* pledges.py:176: the handler acts only on an existing PENDING pledge
CaptureAllowed(tbl, k) == k \in DOMAIN tbl /\ tbl[k].status = "pending"

\* pledges.py:199: the guard of the SUCCESSFUL transition
FullyFunded(current_funding, funding_goal, status) ==
    current_funding >= funding_goal /\ status = "funding"

\* pledges.py:188: the value the handler assigns to project.current_funding
Increment(current_funding, amount) == current_funding + amount

\* pledges.py:181-211: the commit of a capture by a handler that read the
\* pledge row as pl and the project row as pr; the UPDATE carries the columns
\* the handler assigned, with the values it computed from what it read
CaptureCommit(k, intent, pl, pr) ==
    LET p == pl.project_id
        funding == Increment(pr.current_funding, pl.amount)
        funded == FullyFunded(funding, pr.funding_goal, pr.status)
        teacher == pr.teacher_id
        notes == IF funded
                 THEN SetToBag({Notification(teacher, "new_pledge", p),
                                Notification(teacher, "fully_funded", p)})
                 ELSE SetToBag({Notification(teacher, "new_pledge", p)})
    IN  /\ NotifRoom(BagCardinality(notes))
        /\ pledges' = [pledges EXCEPT ![k].status = "captured",
                                      ![k].payment_intent_id = intent]
        /\ projects' = [projects EXCEPT
                           ![p].current_funding = funding,
                           ![p].status = IF funded THEN "successful" ELSE @]
        /\ notifications' = notifications (+) notes

\* the events the gateway can deliver for correlation id k: a checkout session
\* was created for pledge k, or k names no pledge of this store
CheckoutEventPossible(k) ==
    IF k \in DOMAIN pledges THEN pledges[k].checkout_session_id # None ELSE TRUE

\* pledges.py:163-215, 266; the payment intent of checkout session k is k
webhook_checkout_completed(k) ==
    /\ CheckoutEventPossible(k)
    /\ IF ~CaptureAllowed(pledges, k)
       THEN /\ last' = Response("checkout_completed", k, 200, "already_processed")
            /\ UNCHANGED <<pledges, projects, notifications>>
       ELSE /\ CaptureCommit(k, k, pledges[k], projects[pledges[k].project_id])
            /\ last' = Response("checkout_completed", k, 200, "captured")
    /\ UNCHANGED <<users, negotiation, gateway, txns>>


\* ----------------------------------------------- pledges.py: charge.refunded
\* pledges.py:249: the rows WHERE payment_intent_id == <intent> selects; a
\* missing payment reference compares with None, which SQL renders IS NULL
RefundMatches(tbl, intent) == {k \in DOMAIN tbl : tbl[k].payment_intent_id = intent}

\* pledges.py:250: the handler acts on a pledge that is not REFUNDED yet
RefundAllowed(row) == row.status # "refunded"

\* the charges the gateway can report as refunded: the charge of a checkout
\* session created for a pledge, or a charge without payment intent
RefundEventPossible(intent) ==
    IF intent \in DOMAIN pledges THEN pledges[intent].checkout_session_id # None
    ELSE intent = None

\* pledges.py:244-261, 266; .first() without ORDER BY returns any matching row
webhook_charge_refunded(intent) ==
    /\ RefundEventPossible(intent)
    /\ IF RefundMatches(pledges, intent) = {}
       THEN /\ last' = Response("charge_refunded", intent, 200, "no_pledge")
            /\ UNCHANGED <<pledges, projects>>
       ELSE \E k \in RefundMatches(pledges, intent) :
            IF ~RefundAllowed(pledges[k])
            THEN /\ last' = Response("charge_refunded", intent, 200, "already_refunded")
                 /\ UNCHANGED <<pledges, projects>>
            ELSE /\ pledges' = [pledges EXCEPT ![k].status = "refunded"]
                 /\ projects' = [projects EXCEPT ![pledges[k].project_id].current_funding =
                                    @ - pledges[k].amount]
                 /\ last' = Response("charge_refunded", intent, 200, "refunded")
    /\ UNCHANGED <<users, negotiation, notifications, gateway, txns>>

\* ----------------------------------------------- pledges.py: account.updated
\* every FUNDING project, whoever teaches it
AllFundingProjects(tbl, t) == {p \in DOMAIN tbl : tbl[p].status = "funding"}

\* pledges.py:228: the rows WHERE teacher_id == <teacher> AND status == FUNDING
ProjectsToHold(tbl, t) ==
    {p \in DOMAIN tbl : tbl[p].teacher_id = t /\ tbl[p].status = "funding"}

\* pledges.py:222: the user WHERE stripe_account_id == <account>; the account
\* created for teacher t at users.py:515-516 is named t, any other name is an
\* account no user holds
AccountHolder(account) ==
    {u \in Users : u = account /\ users[u].stripe_account_id}

\* pledges.py:217-242, 266
webhook_account_updated(account, charges, payouts) ==
    /\ IF AccountHolder(account) = {}
       THEN /\ last' = Response("account_updated", account, 200, "no_user")
            /\ UNCHANGED <<users, projects, notifications>>
       ELSE /\ NotifRoom(1)
            /\ users' = [users EXCEPT ![account].charges_enabled = charges,
                                      ![account].payouts_enabled = payouts]
            /\ projects' = [p \in DOMAIN projects |->
                               IF ~charges /\ p \in ProjectsToHold(projects, account)
                               THEN [projects[p] EXCEPT !.status = "on_hold"]
                               ELSE projects[p]]
            /\ notifications' = notifications (+)
                                    SetToBag({Notification(account, "account_updated", None)})
            /\ last' = Response("account_updated", account, 200, "updated")
    /\ UNCHANGED <<pledges, negotiation, gateway, txns>>

\* ------------------------------------------------- users.py: payout account
\* users.py:505-530
create_stripe_onboarding_link(u) ==
    /\ IF UserRole(u) # "teacher"
       THEN /\ last' = Response("onboarding", None, 403, "")
            /\ UNCHANGED users
       ELSE /\ users' = [users EXCEPT ![u].stripe_account_id = TRUE]
            /\ last' = Response("onboarding", None, 200, "")
    /\ UNCHANGED <<projects, pledges, negotiation, notifications, gateway, txns>>

\* ------------------------------------------------- videos.py: submit video
\* videos.py:63-125: the status test of line 91 names ProjectStatus.FUNDED and
\* ProjectStatus.IN_PROGRESS, which models.py:13-20 does not define, so every
\* call that passes the owner test ends in an AttributeError (500) before the
\* Video row of line 98 is built; no other handler creates a Video
create_video(u, p) ==
    /\ IF p \notin DOMAIN projects
       THEN last' = Response("create_video", p, 404, "")
       ELSE IF projects[p].teacher_id # u
       THEN last' = Response("create_video", p, 403, "")
       ELSE last' = Response("create_video", p, 500, "")
    /\ UNCHANGED <<db, gateway, txns>>

\* ------------------------------------------------- projects.py: complete
\* a count test that every project passes
AnyVideoCount(row) == TRUE

\* projects.py:391-402: the uploaded videos match what the project promised
VideoCountOk(row) ==
    IF row.is_series
    THEN row.num_videos # None /\ row.videos = row.num_videos
    ELSE row.videos = 1

\* projects.py:407-414, 111-118: one notification per pledge row of S, sent to
\* the pledge's user
RECURSIVE BackerNotes(_, _, _)
BackerNotes(S, kind, p) ==
    IF S = {} THEN EmptyBag
    ELSE LET k == CHOOSE y \in S : TRUE
         IN SetToBag({Notification(pledges[k].user_id, kind, p)})
                (+) BackerNotes(S \ {k}, kind, p)

\* projects.py:371-418
complete_project(u, p) ==
    /\ IF p \notin DOMAIN projects
       THEN /\ last' = Response("complete", p, 404, "")
            /\ UNCHANGED <<projects, notifications>>
       ELSE IF projects[p].teacher_id # u
       THEN /\ last' = Response("complete", p, 403, "")
            /\ UNCHANGED <<projects, notifications>>
       ELSE IF projects[p].status # "successful"
       THEN /\ last' = Response("complete", p, 400, "status")
            /\ UNCHANGED <<projects, notifications>>
       ELSE IF ~VideoCountOk(projects[p])
       THEN /\ last' = Response("complete", p, 400, "videos")
            /\ UNCHANGED <<projects, notifications>>
       ELSE /\ NotifRoom(Cardinality(CapturedOf(p)))
            /\ projects' = [projects EXCEPT ![p].status = "pending_confirmation"]
            /\ notifications' = notifications (+) BackerNotes(CapturedOf(p), "confirm_request", p)
            /\ last' = Response("complete", p, 200, "")
    /\ UNCHANGED <<users, pledges, negotiation, gateway, txns>>


\* ------------------------------------------------- projects.py: confirm
\* projects.py:25: the default platform fee, in hundredths
PLATFORM_FEE_PERCENT == 15

\* a fee rounded up to the next cent
PlatformFeeRoundedUp(amount_collected) ==
    (amount_collected * PLATFORM_FEE_PERCENT + 99) \div 100

\* projects.py:444: int(amount_collected * PLATFORM_FEE_PERCENT); int()
\* truncates toward zero
PlatformFee(amount_collected) ==
    IF amount_collected >= 0
    THEN (amount_collected * PLATFORM_FEE_PERCENT) \div 100
    ELSE -(((-amount_collected) * PLATFORM_FEE_PERCENT) \div 100)

\* projects.py:443-445
PayoutAmount(amount_collected) == amount_collected - PlatformFee(amount_collected)

\* a backer test that every caller passes
AnyCaller(u, p) == TRUE

\* projects.py:432: the caller holds a CAPTURED pledge of project p
IsBacker(u, p) == \E k \in CapturedOf(p) : pledges[k].user_id = u

\* projects.py:436: a payout was already made according to the row read
AlreadyPaidOut(row) == row.stripe_transfer_id # None

\* projects.py:426-441: the checks of confirm-completion on the project row
\* pr as read, "" when all pass
ConfirmRejection(u, p, pr) ==
    IF pr.status # "pending_confirmation" THEN "status"
    ELSE IF ~IsBacker(u, p) THEN "not_backer"
    ELSE IF AlreadyPaidOut(pr) THEN "paid_out"
    ELSE IF ~users[pr.teacher_id].stripe_account_id THEN "no_account"
    ELSE ""

\* projects.py:443-471: the gateway call and the commit of a confirm that
\* read the project row as pr; gatewayOk is the outcome of Transfer.create
ConfirmCommit(p, pr, gatewayOk) ==
    LET payout == PayoutAmount(pr.current_funding) IN
    IF payout > 0 /\ ~gatewayOk
    THEN /\ last' = Response("confirm", p, 400, "payout_failed")
         /\ UNCHANGED <<projects, notifications, transfers>>
    ELSE /\ NotifRoom(1)
         /\ payout > 0 => Len(transfers) < MaxTransfers
         /\ transfers' = IF payout > 0
                         THEN Append(transfers, [project_id |-> p, amount |-> payout])
                         ELSE transfers
         /\ projects' = [projects EXCEPT
                            ![p].stripe_transfer_id =
                                IF payout > 0 THEN Len(transfers) + 1 ELSE @,
                            ![p].status = "completed"]
         /\ notifications' = notifications (+)
                SetToBag({Notification(pr.teacher_id, "funds_released", p)})
         /\ last' = Response("confirm", p, 200, "")

\* projects.py:420-471
confirm_completion(u, p, gatewayOk) ==
    /\ IF p \notin DOMAIN projects
       THEN /\ last' = Response("confirm", p, 404, "")
            /\ UNCHANGED <<projects, notifications, transfers>>
       ELSE IF ConfirmRejection(u, p, projects[p]) # ""
       THEN /\ last' = Response("confirm", p,
                         IF ConfirmRejection(u, p, projects[p]) = "not_backer"
                         THEN 403 ELSE 400,
                         ConfirmRejection(u, p, projects[p]))
            /\ UNCHANGED <<projects, notifications, transfers>>
       ELSE ConfirmCommit(p, projects[p], gatewayOk)
    /\ UNCHANGED <<users, pledges, negotiation, refunds, txns>>

\* ------------------------------------------------- projects.py: cancel
\* a refund loop that ends at the first pledge whose refund fails
RefundUntilFailure(tbl, p, ok) ==
    [k \in DOMAIN tbl |->
        IF /\ tbl[k].project_id = p
           /\ tbl[k].status = "captured"
           /\ \A j \in 1..k : (tbl[j].project_id = p /\ tbl[j].status = "captured") => j \in ok
        THEN [tbl[k] EXCEPT !.status = "refunded"]
        ELSE tbl[k]]

\* projects.py:111-120: the pledge table after the refund loop, ok being the
\* pledges whose Refund.create succeeds
RefundLoop(tbl, p, ok) ==
    [k \in DOMAIN tbl |->
        IF tbl[k].project_id = p /\ tbl[k].status = "captured" /\ k \in ok
        THEN [tbl[k] EXCEPT !.status = "refunded"]
        ELSE tbl[k]]

\* projects.py:122-123: the project row after the cancellation
Cancelled(row) == [row EXCEPT !.status = "cancelled"]

\* a reopening that leaves the request targeted and private as it was
ReopenedAsItWas(tbl, r) ==
    IF r \in DOMAIN tbl THEN [tbl EXCEPT ![r].status = "open"] ELSE tbl

\* projects.py:125-131: the request table after reopening the origin request
Reopened(tbl, r) ==
    IF r \in DOMAIN tbl
    THEN [tbl EXCEPT ![r].status = "open", ![r].target_teacher_id = "",
                     ![r].is_private = FALSE]
    ELSE tbl

\* projects.py:106-141
cancel_project_logic(p, ok) ==
    LET r == projects[p].origin_request_id
        reopen == r # None /\ r \in DOMAIN requests
        notes == BackerNotes(CapturedOf(p) \cap ok, "refunded", p)
                 (+) (IF reopen
                      THEN SetToBag({Notification(requests[r].user_id, "request_reopened", p)})
                      ELSE EmptyBag)
    IN  /\ NotifRoom(BagCardinality(notes))
        /\ reopen => BagCardinality(blacklist) < MaxBlacklist
        /\ pledges' = RefundLoop(pledges, p, ok)
        /\ refunds' = refunds (+) SetToBag({pledges[k].payment_intent_id :
                                                k \in CapturedOf(p) \cap ok})
        /\ projects' = [projects EXCEPT ![p] = Cancelled(@)]
        /\ notifications' = notifications (+) notes
        /\ requests' = IF reopen THEN Reopened(requests, r) ELSE requests
        /\ blacklist' = IF reopen
                        THEN blacklist (+) SetToBag({<<r, projects[p].teacher_id>>})
                        ELSE blacklist

\* projects.py:473-491 (admin.py:84-90 calls it for an admin)
cancel_project(u, p, ok) ==
    /\ IF p \notin DOMAIN projects
       THEN /\ last' = Response("cancel", p, 404, "")
            /\ UNCHANGED <<projects, pledges, requests, blacklist, notifications, refunds>>
       ELSE IF projects[p].teacher_id # u /\ UserRole(u) # "admin"
       THEN /\ last' = Response("cancel", p, 403, "")
            /\ UNCHANGED <<projects, pledges, requests, blacklist, notifications, refunds>>
       ELSE IF projects[p].status = "completed"
       THEN /\ last' = Response("cancel", p, 400, "completed")
            /\ UNCHANGED <<projects, pledges, requests, blacklist, notifications, refunds>>
       ELSE /\ ok \subseteq CapturedOf(p)
            /\ cancel_project_logic(p, ok)
            /\ last' = Response("cancel", p, 200, "")
    /\ UNCHANGED <<users, conversations, messages, transfers, txns>>


\* ------------------------------------------------- requests.py: create
NewRequest(u, target, is_private) ==
    [user_id |-> u, status |-> "open", target_teacher_id |-> target,
     is_private |-> is_private]

\* requests.py:32-83; the notification of lines 73-81 is built with a field
\* the Notification model does not have, so its commit fails after the
\* request row was committed at line 68
create_request(u, target, is_private) ==
    /\ Len(requests) < MaxRequests
    /\ requests' = Append(requests, NewRequest(u, target, is_private))
    /\ last' = Response("create_request", Len(requests) + 1,
                        IF target # "" THEN 500 ELSE 200, "")
    /\ UNCHANGED <<users, projects, pledges, conversations, messages, blacklist,
                   notifications, gateway, txns>>

\* ------------------------------------------------- conversations.py
\* conversations.py:217-221
ExistingConversation(r, u) ==
    {c \in DOMAIN conversations :
        conversations[c].request_id = r /\ conversations[c].teacher_id = u}

NewMessage(c, sender, type) ==
    [conversation_id |-> c, sender_id |-> sender, message_type |-> type,
     offer_status |-> "", offer_price |-> None, offer_is_series |-> FALSE,
     offer_num_videos |-> None]

\* conversations.py:201-249
create_conversation(u, r) ==
    /\ IF UserRole(u) # "teacher"
       THEN /\ last' = Response("create_conversation", r, 403, "")
            /\ UNCHANGED <<conversations, messages>>
       ELSE IF r \notin DOMAIN requests
       THEN /\ last' = Response("create_conversation", r, 404, "")
            /\ UNCHANGED <<conversations, messages>>
       ELSE IF requests[r].user_id = u
       THEN /\ last' = Response("create_conversation", r, 400, "")
            /\ UNCHANGED <<conversations, messages>>
       ELSE IF ExistingConversation(r, u) # {}
       THEN /\ last' = Response("create_conversation", r, 200, "existing")
            /\ UNCHANGED <<conversations, messages>>
       ELSE /\ Len(conversations) < MaxConversations
            /\ Len(messages) < MaxMessages
            /\ conversations' = Append(conversations,
                   [request_id |-> r, teacher_id |-> u,
                    student_id |-> requests[r].user_id, status |-> "open"])
            /\ messages' = Append(messages, NewMessage(Len(conversations) + 1, u, "text"))
            /\ last' = Response("create_conversation", r, 200, "created")
    /\ UNCHANGED <<users, projects, pledges, requests, blacklist, notifications,
                   gateway, txns>>

\* conversations.py:461-463
OfferPrice(in) ==
    IF in.is_series /\ in.price_per_video # None /\ in.price_per_video # 0
       /\ in.num_videos # None /\ in.num_videos # 0 /\ in.num_videos > 0
    THEN in.price_per_video * in.num_videos
    ELSE in.offer_price

\* conversations.py:444-512
make_offer(u, c, in) ==
    /\ IF c \notin DOMAIN conversations
       THEN /\ last' = Response("make_offer", c, 404, "")
            /\ UNCHANGED messages
       ELSE IF u # conversations[c].teacher_id
       THEN /\ last' = Response("make_offer", c, 403, "")
            /\ UNCHANGED messages
       ELSE IF conversations[c].status = "closed"
       THEN /\ last' = Response("make_offer", c, 400, "")
            /\ UNCHANGED messages
       ELSE /\ Len(messages) < MaxMessages
            /\ messages' = Append(messages,
                   [NewMessage(c, u, "offer") EXCEPT
                       !.offer_status = "pending",
                       !.offer_price = OfferPrice(in),
                       !.offer_is_series = in.is_series,
                       !.offer_num_videos = in.num_videos])
            /\ last' = Response("make_offer", c, 200, "")
    /\ UNCHANGED <<users, projects, pledges, requests, conversations, blacklist,
                   notifications, gateway, txns>>

\* a close that stops at the first conversation of request r
CloseFirst(tbl, r) ==
    [c \in DOMAIN tbl |->
        IF tbl[c].request_id = r /\ (\A d \in 1..(c - 1) : tbl[d].request_id # r)
        THEN [tbl[c] EXCEPT !.status = "closed"]
        ELSE tbl[c]]

\* conversations.py:559-563: every conversation of request r is closed
CloseAll(tbl, r) ==
    [c \in DOMAIN tbl |->
        IF tbl[c].request_id = r THEN [tbl[c] EXCEPT !.status = "closed"] ELSE tbl[c]]

\* conversations.py:538-551
ProjectFromOffer(m, conv) ==
    NewProject(conv.teacher_id, m.offer_price, conv.request_id, m.offer_is_series,
               m.offer_num_videos)

\* conversations.py:514-568; delivered tells whether every send of the
\* broadcasts of lines 554 and 563 returns: a send that raises ends the handler
\* before the commit of line 565
accept_offer(u, m, delivered) ==
    /\ IF m \notin DOMAIN messages \/ messages[m].message_type # "offer"
       THEN /\ last' = Response("accept_offer", m, 404, "")
            /\ UNCHANGED <<messages, requests, projects, conversations>>
       ELSE IF u # conversations[messages[m].conversation_id].student_id
       THEN /\ last' = Response("accept_offer", m, 403, "")
            /\ UNCHANGED <<messages, requests, projects, conversations>>
       ELSE IF messages[m].offer_status # "pending"
       THEN /\ last' = Response("accept_offer", m, 400, "")
            /\ UNCHANGED <<messages, requests, projects, conversations>>
       ELSE IF ~delivered
       THEN /\ last' = Response("accept_offer", m, 500, "")
            /\ UNCHANGED <<messages, requests, projects, conversations>>
       ELSE LET conv == conversations[messages[m].conversation_id] IN
            /\ Len(projects) < MaxProjects
            /\ messages' = [messages EXCEPT ![m].offer_status = "accepted"]
            /\ requests' = [requests EXCEPT ![conv.request_id].status = "accepted"]
            /\ projects' = Append(projects, ProjectFromOffer(messages[m], conv))
            /\ conversations' = CloseAll(conversations, conv.request_id)
            /\ last' = Response("accept_offer", m, 200, "")
    /\ UNCHANGED <<users, pledges, blacklist, notifications, gateway, txns>>

\* a close that takes every conversation of c's request with it
CloseWithSiblings(tbl, c) ==
    [d \in DOMAIN tbl |->
        IF tbl[d].request_id = tbl[c].request_id
        THEN [tbl[d] EXCEPT !.status = "closed"]
        ELSE tbl[d]]

\* conversations.py:590-591: the rejected offer's conversation is closed
CloseOne(tbl, c) == [tbl EXCEPT ![c].status = "closed"]

\* conversations.py:570-603
reject_offer(u, m) ==
    /\ IF m \notin DOMAIN messages \/ messages[m].message_type # "offer"
       THEN /\ last' = Response("reject_offer", m, 404, "")
            /\ UNCHANGED <<messages, conversations, blacklist>>
       ELSE IF u # conversations[messages[m].conversation_id].student_id
       THEN /\ last' = Response("reject_offer", m, 403, "")
            /\ UNCHANGED <<messages, conversations, blacklist>>
       ELSE IF messages[m].offer_status # "pending"
       THEN /\ last' = Response("reject_offer", m, 400, "")
            /\ UNCHANGED <<messages, conversations, blacklist>>
       ELSE LET c == messages[m].conversation_id IN
            /\ BagCardinality(blacklist) < MaxBlacklist
            /\ messages' = [messages EXCEPT ![m].offer_status = "rejected"]
            /\ conversations' = CloseOne(conversations, c)
            /\ blacklist' = blacklist (+) SetToBag({<<conversations[c].request_id,
                                                      conversations[c].teacher_id>>})
            /\ last' = Response("reject_offer", m, 200, "")
    /\ UNCHANGED <<users, projects, pledges, requests, notifications, gateway, txns>>

\* ------------------------------------------------- conversations.py: leave
\* a notice that is persisted whether or not the other party is present
NoticeAlways(user_id, kind, c, present) ==
    SetToBag({Notification(user_id, kind, c)})

\* conversations.py:674-693, 772-791: the other party is told over the
\* conversation's sockets when present there, and by a Notification row
\* otherwise
NoticeIfAbsent(user_id, kind, c, present) ==
    IF present THEN EmptyBag ELSE SetToBag({Notification(user_id, kind, c)})

\* conversations.py:623-698, 720-796: what both leave handlers do once the
\* caller is known to be the party `leaver` of conversation c: the departure
\* message, the closure, the blacklist row for the conversation's teacher and
\* the notice to the other party; delivered tells whether the broadcast to a
\* present party returns, a send that raises ending the handler before the
\* commit
Leave(op, c, leaver, other, kind, present, delivered) ==
    IF present /\ ~delivered
    THEN /\ last' = Response(op, c, 500, "")
         /\ UNCHANGED <<messages, conversations, blacklist, notifications>>
    ELSE /\ Len(messages) < MaxMessages
         /\ BagCardinality(blacklist) < MaxBlacklist
         /\ NotifRoom(1)
         /\ messages' = Append(messages, NewMessage(c, leaver, "text"))
         /\ conversations' = CloseOne(conversations, c)
         /\ blacklist' = blacklist (+) SetToBag({<<conversations[c].request_id,
                                                   conversations[c].teacher_id>>})
         /\ notifications' = notifications (+) NoticeIfAbsent(other, kind, c, present)
         /\ last' = Response(op, c, 200, "")

\* conversations.py:605-700; present tells whether the teacher has a socket
\* on the conversation at the check of line 674
leave_conversation(u, c, present, delivered) ==
    /\ IF c \notin DOMAIN conversations
       THEN /\ last' = Response("leave", c, 404, "")
            /\ UNCHANGED <<messages, conversations, blacklist, notifications>>
       ELSE IF u # conversations[c].student_id
       THEN /\ last' = Response("leave", c, 403, "")
            /\ UNCHANGED <<messages, conversations, blacklist, notifications>>
       ELSE Leave("leave", c, u, conversations[c].teacher_id, "student_left",
                  present, delivered)
    /\ UNCHANGED <<users, projects, pledges, requests, gateway, txns>>

\* conversations.py:702-798; present tells whether the student has a socket
\* on the conversation at the check of line 772
teacher_leave_conversation(u, c, present, delivered) ==
    /\ IF c \notin DOMAIN conversations
       THEN /\ last' = Response("teacher_leave", c, 404, "")
            /\ UNCHANGED <<messages, conversations, blacklist, notifications>>
       ELSE IF u # conversations[c].teacher_id
       THEN /\ last' = Response("teacher_leave", c, 403, "")
            /\ UNCHANGED <<messages, conversations, blacklist, notifications>>
       ELSE Leave("teacher_leave", c, u, conversations[c].student_id, "teacher_left",
                  present, delivered)
    /\ UNCHANGED <<users, projects, pledges, requests, gateway, txns>>

\* ------------------------------------------------- requests.py: cancel, list
\* requests.py:120-123, 211-215: a RequestBlacklist row for (request, teacher)
Blacklisted(r, t) == CopiesIn(<<r, t>>, blacklist) > 0

\* requests.py:205
ConversationsOf(r) == {c \in DOMAIN conversations : conversations[c].request_id = r}

\* requests.py:209-221: the conversations whose teacher is told of the
\* cancellation, a blacklisted teacher's conversation being closed silently
NoticedConversations(r) ==
    {c \in ConversationsOf(r) : ~Blacklisted(r, conversations[c].teacher_id)}

\* requests.py:223-234: one cancellation message per noticed conversation, in
\* the order of the conversation rows
RECURSIVE CancellationMessages(_, _, _)
CancellationMessages(msgs, convs, sender) ==
    IF convs = {}
    THEN msgs
    ELSE LET c == CHOOSE x \in convs : \A y \in convs : x <= y
         IN  CancellationMessages(Append(msgs, NewMessage(c, sender, "text")),
                                  convs \ {c}, sender)

\* requests.py:174-284; offline are the teachers with no socket on their
\* conversation: for them lines 269-275 build a Notification with a field the
\* model does not have and read it back, which fails before the commit of
\* line 283
cancel_request(u, r, offline) ==
    /\ IF r \notin DOMAIN requests
       THEN /\ last' = Response("cancel_request", r, 404, "")
            /\ UNCHANGED <<requests, conversations, messages>>
       ELSE IF requests[r].user_id # u /\ UserRole(u) # "admin"
       THEN /\ last' = Response("cancel_request", r, 403, "")
            /\ UNCHANGED <<requests, conversations, messages>>
       ELSE IF requests[r].status \notin {"open", "negotiating"}
       THEN /\ last' = Response("cancel_request", r, 400, "")
            /\ UNCHANGED <<requests, conversations, messages>>
       ELSE IF \E c \in NoticedConversations(r) : conversations[c].teacher_id \in offline
       THEN /\ last' = Response("cancel_request", r, 500, "")
            /\ UNCHANGED <<requests, conversations, messages>>
       ELSE /\ Len(messages) + Cardinality(NoticedConversations(r)) <= MaxMessages
            /\ requests' = [requests EXCEPT ![r].status = "cancelled"]
            /\ messages' = CancellationMessages(messages, NoticedConversations(r), u)
            /\ conversations' = CloseAll(conversations, r)
            /\ last' = Response("cancel_request", r, 200, "")
    /\ UNCHANGED <<users, projects, pledges, blacklist, notifications, gateway, txns>>

\* requests.py:97-123: the ids List Requests selects for viewer u before the
\* language and level filters and the paging, none of which is given
ListRequests(u) ==
    {r \in DOMAIN requests :
        /\ requests[r].status # "cancelled"
        /\ \/ requests[r].user_id = u
           \/ requests[r].is_private = FALSE /\ requests[r].status \in {"open", "negotiating"}
           \/ /\ UserRole(u) = "teacher"
              /\ requests[r].target_teacher_id = u
              /\ requests[r].status \in {"open", "negotiating"}
        /\ UserRole(u) = "teacher" => ~Blacklisted(r, u)}

\* ------------------------------------------------------- specification
Funding ==
    \/ \E u \in Owners \cup {"s1"}, in \in FlatInputs :
          create_project(u, in.funding_goal, in.is_series, in.price_per_video,
                         in.num_videos)
    \/ \E u \in Owners \cup {"s1"}, p \in 1..MaxProjects, data \in PatchInputs :
          update_project(u, p, data)
    \/ \E u \in Students, p \in 1..MaxProjects, a \in Amounts, ok \in BOOLEAN :
          create_pledge_checkout_session(u, p, a, ok)
    \/ \E k \in 1..MaxPledges : webhook_checkout_completed(k)
    \/ \E i \in (1..MaxPledges) \cup {None} : webhook_charge_refunded(i)
    \/ \E u \in Owners \cup {"s1"} : create_stripe_onboarding_link(u)
    \/ \E u \in Owners \cup {"s1"}, p \in 1..MaxProjects : create_video(u, p)
    \/ \E u \in Owners \cup {"s1"}, p \in 1..MaxProjects : complete_project(u, p)
    \/ \E u \in Owners \cup Students, p \in 1..MaxProjects, ok \in BOOLEAN :
          confirm_completion(u, p, ok)
    \/ \E u \in Callers, p \in 1..MaxProjects, ok \in SUBSET (1..MaxPledges) :
          cancel_project(u, p, ok)

Negotiation ==
    \/ \E t \in Teachers \cup {""}, priv \in BOOLEAN : create_request("s1", t, priv)
    \/ \E u \in Users, r \in 1..MaxRequests : create_conversation(u, r)
    \/ \E u \in Users, c \in 1..MaxConversations, in \in OfferInputs :
          make_offer(u, c, in)
    \/ \E u \in Users, m \in 1..MaxMessages, delivered \in BOOLEAN :
          accept_offer(u, m, delivered)
    \/ \E u \in Users, m \in 1..MaxMessages : reject_offer(u, m)
    \/ \E u \in Users, r \in 1..MaxRequests, offline \in SUBSET Teachers :
          cancel_request(u, r, offline)

Next == Funding \/ Negotiation

Spec == Init /\ [][Next]_vars

SpecFunding == Init /\ [][Funding]_vars

SpecNegotiation == Init /\ [][Negotiation]_vars

\* the operations that move money between pledges and a project's funding,
\* every refund event carrying the payment reference of a checkout
Ledger ==
    \/ \E u \in Owners, in \in FlatInputs :
          create_project(u, in.funding_goal, in.is_series, in.price_per_video,
                         in.num_videos)
    \/ \E u \in Students, p \in 1..MaxProjects, a \in Amounts, ok \in BOOLEAN :
          create_pledge_checkout_session(u, p, a, ok)
    \/ \E k \in 1..MaxPledges : webhook_checkout_completed(k)
    \/ \E i \in 1..MaxPledges : webhook_charge_refunded(i)
    \/ \E u \in Owners : create_stripe_onboarding_link(u)
    \/ \E u \in Owners, p \in 1..MaxProjects : complete_project(u, p)
    \/ \E u \in Students, p \in 1..MaxProjects, ok \in BOOLEAN :
          confirm_completion(u, p, ok)
    \/ \E u \in Owners \cup Admins, p \in 1..MaxProjects, ok \in SUBSET (1..MaxPledges) :
          cancel_project(u, p, ok)

SpecLedger == Init /\ [][Ledger]_vars


\* a project from its origin, a request's accepted offer or the teacher's own
\* form, through funding to its cancellation
Cancellation ==
    \/ \E t \in Owners \cup {""}, priv \in BOOLEAN : create_request("s1", t, priv)
    \/ \E u \in Owners, r \in 1..MaxRequests : create_conversation(u, r)
    \/ \E u \in Owners, c \in 1..MaxConversations, in \in OfferInputs :
          make_offer(u, c, in)
    \/ \E m \in 1..MaxMessages, delivered \in BOOLEAN : accept_offer("s1", m, delivered)
    \/ \E u \in Owners, in \in FlatInputs :
          create_project(u, in.funding_goal, in.is_series, in.price_per_video,
                         in.num_videos)
    \/ \E u \in Students, p \in 1..MaxProjects, a \in Amounts :
          create_pledge_checkout_session(u, p, a, TRUE)
    \/ \E k \in 1..MaxPledges : webhook_checkout_completed(k)
    \/ \E u \in Owners, p \in 1..MaxProjects :
          update_project(u, p, [status |-> "completed", funding_goal |-> None])
    \/ \E u \in Callers, p \in 1..MaxProjects, ok \in SUBSET (1..MaxPledges) :
          cancel_project(u, p, ok)

SpecCancellation == Init /\ [][Cancellation]_vars

\* request bodies of POST /projects/ (schemas.py:43-53) over every
\* combination of the fields that projects.py:208-214 reads; 0 stands for the
\* counts that are not positive
CreateInputs ==
    [funding_goal : 0..MaxGoal, is_series : BOOLEAN,
     price_per_video : {None} \cup (0..MaxGoal), num_videos : {None} \cup (0..MaxGoal)]

\* a POST /projects/ call of caller u with the given body has arrived
InitCreate ==
    /\ users = [u \in Users |-> NewUser]
    /\ projects = <<>>
    /\ pledges = <<>>
    /\ requests = <<>>
    /\ conversations = <<>>
    /\ messages = <<>>
    /\ blacklist = EmptyBag
    /\ notifications = EmptyBag
    /\ transfers = <<>>
    /\ refunds = EmptyBag
    /\ \E u \in Callers, body \in CreateInputs :
          txns = [h \in 1..MaxHandlers |->
                     IF h = 1 THEN [op |-> "create_project", u |-> u, body |-> body]
                     ELSE Idle]
    /\ last = Response("init", None, 0, "")

\* projects.py:199-225 applied to the call that arrived
Creation ==
    /\ txns[1].op = "create_project"
    /\ create_project(txns[1].u, txns[1].body.funding_goal, txns[1].body.is_series,
                      txns[1].body.price_per_video, txns[1].body.num_videos)

SpecCreation == InitCreate /\ [][Creation]_vars

\* the store when teacher t1's project 1 awaits confirmation with
\* current_funding n: for n > 0 after s1's pledge of n was captured and met
\* the goal; for n = 0 after s1's pledge of 1 was captured and a refund event
\* without payment reference took s2's unpaid pledge of 1 off the funding
\* (pledges.py:249-255); the status was then set by PATCH (projects.py:362-367)
AwaitingConfirmation(n, account) ==
    /\ users = [u \in Users |-> [NewUser EXCEPT !.stripe_account_id = (u = "t1" /\ account)]]
    /\ projects = <<[NewProject("t1", IF n = 0 THEN 2 ELSE n, None, FALSE, None) EXCEPT
                        !.current_funding = n, !.status = "pending_confirmation"]>>
    /\ pledges = IF n = 0
                 THEN <<[user_id |-> "s1", project_id |-> 1, amount |-> 1,
                         status |-> "captured", payment_intent_id |-> 1,
                         checkout_session_id |-> 1],
                        [NewPledge("s2", 1, 1) EXCEPT !.status = "refunded"]>>
                 ELSE <<[user_id |-> "s1", project_id |-> 1, amount |-> n,
                         status |-> "captured", payment_intent_id |-> 1,
                         checkout_session_id |-> 1]>>
    /\ notifications = IF n = 0
                       THEN SetToBag({Notification("t1", "new_pledge", 1)})
                       ELSE SetToBag({Notification("t1", "new_pledge", 1),
                                      Notification("t1", "fully_funded", 1)})

InitPayout ==
    /\ \E n \in 0..MaxFunding, account \in BOOLEAN : AwaitingConfirmation(n, account)
    /\ requests = <<>>
    /\ conversations = <<>>
    /\ messages = <<>>
    /\ blacklist = EmptyBag
    /\ transfers = <<>>
    /\ refunds = EmptyBag
    /\ txns = [h \in 1..MaxHandlers |-> Idle]
    /\ last = Response("init", None, 0, "")

Payout ==
    \/ \E u \in Owners \cup Students, p \in 1..MaxProjects, ok \in BOOLEAN :
          confirm_completion(u, p, ok)
    \/ \E u \in Owners : create_stripe_onboarding_link(u)
    \/ \E u \in Owners, p \in 1..MaxProjects :
          update_project(u, p, [status |-> "pending_confirmation", funding_goal |-> None])

SpecPayout == InitPayout /\ [][Payout]_vars

\* the flat offer of the given price (schemas.py:155-164)
FlatOffer(price) ==
    [offer_price |-> price, is_series |-> FALSE, price_per_video |-> None,
     num_videos |-> None]

\* the offer messages that teacher t has sent
OffersOf(t) ==
    {m \in DOMAIN messages :
        messages[m].message_type = "offer" /\ messages[m].sender_id = t}

\* the calls of one request's way from its creation to the payout: student s1
\* asks, teachers t1 and t2 each open a conversation and offer once (1200 and
\* 1000), s1 accepts t1's offer when both are there, pledges the goal, the
\* gateway reports the checkout, t1 connects a payout account and, the
\* project being SUCCESSFUL, uploads the video and completes, and s1, having
\* paid, confirms; every gateway call and send succeeds
Ask == \E priv \in BOOLEAN : create_request("s1", "", priv)

Converse ==
    \E t \in Teachers :
        /\ requests # <<>>
        /\ ExistingConversation(1, t) = {}
        /\ create_conversation(t, 1)

OfferA ==
    \E c \in 1..MaxConversations :
        /\ c \in DOMAIN conversations
        /\ conversations[c].teacher_id = "t1"
        /\ OffersOf("t1") = {}
        /\ make_offer("t1", c, FlatOffer(1200))

OfferB ==
    \E c \in 1..MaxConversations :
        /\ c \in DOMAIN conversations
        /\ conversations[c].teacher_id = "t2"
        /\ OffersOf("t2") = {}
        /\ make_offer("t2", c, FlatOffer(1000))

AcceptA ==
    \E m \in 1..MaxMessages :
        /\ m \in OffersOf("t1")
        /\ messages[m].offer_status = "pending"
        /\ OffersOf("t2") # {}
        /\ accept_offer("s1", m, TRUE)

PledgeGoal ==
    /\ pledges = <<>>
    /\ create_pledge_checkout_session("s1", 1, 1200, TRUE)

Capture ==
    /\ Len(pledges) = 1
    /\ pledges[1].status = "pending"
    /\ webhook_checkout_completed(1)

Onboard ==
    /\ ~users["t1"].stripe_account_id
    /\ create_stripe_onboarding_link("t1")

Upload ==
    /\ Len(projects) = 1
    /\ projects[1].status = "successful"
    /\ create_video("t1", 1)

Complete ==
    /\ Len(projects) = 1
    /\ projects[1].status = "successful"
    /\ complete_project("t1", 1)

Confirm ==
    /\ Len(projects) = 1
    /\ IsBacker("s1", 1)
    /\ projects[1].status # "completed"
    /\ confirm_completion("s1", 1, TRUE)

EndToEnd ==
    \/ Ask
    \/ Converse
    \/ OfferA
    \/ OfferB
    \/ AcceptA
    \/ PledgeGoal
    \/ Capture
    \/ Onboard
    \/ Upload
    \/ Complete
    \/ Confirm

\* every caller of EndToEnd goes on with its next call for as long as that
\* call changes something
SpecEndToEnd ==
    /\ Init
    /\ [][EndToEnd]_vars
    /\ WF_vars(Ask) /\ WF_vars(Converse) /\ WF_vars(OfferA) /\ WF_vars(OfferB)
    /\ WF_vars(AcceptA) /\ WF_vars(PledgeGoal) /\ WF_vars(Capture)
    /\ WF_vars(Onboard) /\ WF_vars(Upload) /\ WF_vars(Complete) /\ WF_vars(Confirm)

\* offers of price 1 (schemas.py:155-164): flat, a series without a count, and
\* a series of no videos, which conversations.py:461-463 lets pass
CompletionOffers ==
    {FlatOffer(1),
     [offer_price |-> 1, is_series |-> TRUE, price_per_video |-> 1, num_videos |-> None],
     [offer_price |-> 1, is_series |-> TRUE, price_per_video |-> 1, num_videos |-> 0]}

\* a project from an accepted offer, its pledges and captures, the uploads and
\* the calls of Complete Project by every kind of caller
Completion ==
    \/ create_request("s1", "", FALSE)
    \/ create_conversation("t1", 1)
    \/ \E c \in 1..MaxConversations, in \in CompletionOffers : make_offer("t1", c, in)
    \/ \E m \in 1..MaxMessages : accept_offer("s1", m, TRUE)
    \/ \E u \in Students, p \in 1..MaxProjects :
          create_pledge_checkout_session(u, p, 1, TRUE)
    \/ \E k \in 1..MaxPledges : webhook_checkout_completed(k)
    \/ \E p \in 1..MaxProjects : create_video("t1", p)
    \/ \E u \in Users, p \in 1..MaxProjects : complete_project(u, p)

SpecCompletion == Init /\ [][Completion]_vars

\* conversations of one request and the ways out of them
Leaving ==
    \/ \E priv \in BOOLEAN : create_request("s1", "", priv)
    \/ \E u \in Teachers, r \in 1..MaxRequests : create_conversation(u, r)
    \/ \E u \in Teachers, c \in 1..MaxConversations : make_offer(u, c, FlatOffer(1))
    \/ \E u \in Users, c \in 1..MaxConversations, present \in BOOLEAN, delivered \in BOOLEAN :
          leave_conversation(u, c, present, delivered)
    \/ \E u \in Users, c \in 1..MaxConversations, present \in BOOLEAN, delivered \in BOOLEAN :
          teacher_leave_conversation(u, c, present, delivered)

SpecLeaving == Init /\ [][Leaving]_vars

\* -------------------------------------------------- handlers in flight
\* Each handler works on its own Session (database.py:16-18, deps through
\* Depends(get_session)): a row it loaded keeps the values read until its
\* commit, which writes the columns the handler assigned.

\* pledges.py:175-183: the webhook handler h loads the pledge row
capture_begin(h, k) ==
    /\ txns[h] = Idle
    /\ CheckoutEventPossible(k)
    /\ IF ~CaptureAllowed(pledges, k)
       THEN /\ last' = Response("checkout_completed", k, 200, "already_processed")
            /\ UNCHANGED txns
       ELSE /\ txns' = [txns EXCEPT ![h] =
                   [op |-> "capture", stage |-> "pledge", k |-> k, pl |-> pledges[k]]]
            /\ UNCHANGED last
    /\ UNCHANGED <<db, gateway>>

\* pledges.py:185: the webhook handler h loads the project row
capture_read_project(h) ==
    /\ txns[h].op = "capture"
    /\ txns[h].stage = "pledge"
    /\ txns' = [txns EXCEPT ![h] =
           [op |-> "capture", stage |-> "project", k |-> txns[h].k, pl |-> txns[h].pl,
            pr |-> projects[txns[h].pl.project_id]]]
    /\ UNCHANGED <<db, gateway, last>>

\* pledges.py:186-211: the webhook handler h commits
capture_commit(h) ==
    /\ txns[h].op = "capture"
    /\ txns[h].stage = "project"
    /\ CaptureCommit(txns[h].k, txns[h].k, txns[h].pl, txns[h].pr)
    /\ txns' = [txns EXCEPT ![h] = Idle]
    /\ last' = Response("checkout_completed", txns[h].k, 200, "captured")
    /\ UNCHANGED <<users, negotiation, gateway>>

\* projects.py:426-441: the confirm handler h loads the project, the caller's
\* pledge and the teacher, and passes the checks
confirm_begin(h, u, p) ==
    /\ txns[h] = Idle
    /\ p \in DOMAIN projects
    /\ IF ConfirmRejection(u, p, projects[p]) # ""
       THEN /\ last' = Response("confirm", p,
                         IF ConfirmRejection(u, p, projects[p]) = "not_backer"
                         THEN 403 ELSE 400,
                         ConfirmRejection(u, p, projects[p]))
            /\ UNCHANGED txns
       ELSE /\ txns' = [txns EXCEPT ![h] = [op |-> "confirm", p |-> p, pr |-> projects[p]]]
            /\ UNCHANGED last
    /\ UNCHANGED <<db, gateway>>

\* projects.py:443-471: the confirm handler h asks for the transfer and commits
confirm_commit(h, gatewayOk) ==
    /\ txns[h].op = "confirm"
    /\ ConfirmCommit(txns[h].p, txns[h].pr, gatewayOk)
    /\ txns' = [txns EXCEPT ![h] = Idle]
    /\ UNCHANGED <<users, pledges, negotiation, refunds>>

\* the caller whose confirm-completion call handler h serves: each student
\* has one such call in flight at a time
Backer(h) == IF h = 1 THEN "s1" ELSE "s2"

Concurrent ==
    \/ \E u \in Owners, in \in FlatInputs :
          create_project(u, in.funding_goal, in.is_series, in.price_per_video,
                         in.num_videos)
    \/ \E u \in Owners, p \in 1..MaxProjects :
          update_project(u, p, [status |-> "pending_confirmation", funding_goal |-> None])
    \/ \E u \in Students, p \in 1..MaxProjects, a \in Amounts :
          create_pledge_checkout_session(u, p, a, TRUE)
    \/ \E u \in Owners : create_stripe_onboarding_link(u)
    \/ \E h \in 1..MaxHandlers, k \in 1..MaxPledges : capture_begin(h, k)
    \/ \E h \in 1..MaxHandlers : capture_read_project(h)
    \/ \E h \in 1..MaxHandlers : capture_commit(h)
    \/ \E h \in 1..MaxHandlers, p \in 1..MaxProjects : confirm_begin(h, Backer(h), p)
    \/ \E h \in 1..MaxHandlers, ok \in BOOLEAN : confirm_commit(h, ok)

\* the handlers of Concurrent run in separate sessions and interleave
SpecConc == Init /\ [][Concurrent]_vars

\* conversations.py:207-224: create_conversation is a plain def, which
\* FastAPI runs on a worker thread; handler h passes the role, request and
\* ownership checks and looks for the teacher's conversation of the request
conversation_begin(h, u, r) ==
    /\ txns[h] = Idle
    /\ IF UserRole(u) # "teacher"
       THEN /\ last' = Response("create_conversation", r, 403, "")
            /\ UNCHANGED txns
       ELSE IF r \notin DOMAIN requests
       THEN /\ last' = Response("create_conversation", r, 404, "")
            /\ UNCHANGED txns
       ELSE IF requests[r].user_id = u
       THEN /\ last' = Response("create_conversation", r, 400, "")
            /\ UNCHANGED txns
       ELSE IF ExistingConversation(r, u) # {}
       THEN /\ last' = Response("create_conversation", r, 200, "existing")
            /\ UNCHANGED txns
       ELSE /\ txns' = [txns EXCEPT ![h] =
                   [op |-> "conversation", u |-> u, r |-> r,
                    student_id |-> requests[r].user_id]]
            /\ UNCHANGED last
    /\ UNCHANGED <<db, gateway>>

\* conversations.py:226-249: handler h, having found no conversation, inserts
\* one and its greeting; no constraint of the Conversation table
\* (models.py:258-267) stands in the way of a second row for the pair
conversation_commit(h) ==
    /\ txns[h].op = "conversation"
    /\ Len(conversations) < MaxConversations
    /\ Len(messages) < MaxMessages
    /\ conversations' = Append(conversations,
           [request_id |-> txns[h].r, teacher_id |-> txns[h].u,
            student_id |-> txns[h].student_id, status |-> "open"])
    /\ messages' = Append(messages, NewMessage(Len(conversations) + 1, txns[h].u, "text"))
    /\ last' = Response("create_conversation", txns[h].r, 200, "created")
    /\ txns' = [txns EXCEPT ![h] = Idle]
    /\ UNCHANGED <<users, projects, pledges, requests, blacklist, notifications, gateway>>

ConcurrentNegotiation ==
    \/ \E t \in Teachers \cup {""}, priv \in BOOLEAN : create_request("s1", t, priv)
    \/ \E h \in 1..MaxHandlers, u \in Users, r \in 1..MaxRequests :
          conversation_begin(h, u, r)
    \/ \E h \in 1..MaxHandlers : conversation_commit(h)
    \/ \E u \in Users, c \in 1..MaxConversations, in \in OfferInputs :
          make_offer(u, c, in)
    \/ \E u \in Users, m \in 1..MaxMessages : reject_offer(u, m)

\* the create-conversation handlers run on worker threads and interleave
SpecConcNegotiation == Init /\ [][ConcurrentNegotiation]_vars

\* ------------------------------------------------------------ properties

\* C1: in every reachable state the current_funding of every project equals
\* the sum of the amounts of the project's CAPTURED pledges.
FundingEqualsCaptured ==
    \A p \in DOMAIN projects : projects[p].current_funding = CapturedSum(p)

\* C2: a checkout-completed event for a missing pledge or a pledge that is not
\* PENDING changes nothing and answers success; an event for a PENDING pledge
\* captures that pledge alone, adds its amount to the project's funding once
\* and creates one 'new pledge' notification.  So the same event delivered
\* twice in sequence captures once, increments once and notifies once.
CheckoutReplayIsNoOp ==
    [][last'.op = "checkout_completed" =>
          LET k == last'.id IN
          IF k \in DOMAIN pledges /\ pledges[k].status = "pending"
          THEN LET p == pledges[k].project_id IN
               /\ pledges'[k].status = "captured"
               /\ \A j \in DOMAIN pledges \ {k} : pledges'[j] = pledges[j]
               /\ projects'[p].current_funding =
                      projects[p].current_funding + pledges[k].amount
               /\ NotesIn(notifications', "new_pledge", p) = NoteCount("new_pledge", p) + 1
          ELSE /\ UNCHANGED <<db, gateway>>
               /\ last'.code = 200]_vars

\* C2 witness: the event of pledge 1 was delivered again after its capture;
\* the pledge is captured, funded once and notified once.
CheckoutReplayed ==
    /\ last = Response("checkout_completed", 1, 200, "already_processed")
    /\ 1 \in DOMAIN pledges
    /\ pledges[1].status = "captured"
    /\ Cardinality(PledgesOf(pledges[1].project_id)) = 1
    /\ projects[pledges[1].project_id].current_funding = pledges[1].amount
    /\ NoteCount("new_pledge", pledges[1].project_id) = 1

\* C3: when the webhook handlers that ran all concerned the one pledge of a
\* project, and none is still in flight, the project's current_funding is
\* that pledge's amount counted once.
SamePledgeCapturedOnce ==
    \A p \in DOMAIN projects :
        (Quiescent /\ Cardinality(PledgesOf(p)) = 1)
            => projects[p].current_funding = CapturedSum(p)

\* C4: when two different pledges of a project that is still in its funding
\* phase were each captured by one webhook call, their amounts reaching the
\* goal only together, and no handler is in flight, then current_funding is
\* the sum of both amounts, the project is SUCCESSFUL and exactly one 'fully
\* funded' notification exists.
TwoCapturesOneSuccess ==
    \A p \in DOMAIN projects :
        (/\ Quiescent
         /\ projects[p].status \in {"funding", "successful"}
         /\ Cardinality(CapturedOf(p)) = 2
         /\ NoteCount("new_pledge", p) = 2
         /\ \A k \in CapturedOf(p) : pledges[k].amount < projects[p].funding_goal
         /\ CapturedSum(p) >= projects[p].funding_goal)
            => /\ projects[p].current_funding = CapturedSum(p)
               /\ projects[p].status = "successful"
               /\ NoteCount("fully_funded", p) = 1

\* C5: however the confirm-completion calls of two different backers of a
\* project interleave, the gateway is asked for at most one payout transfer
\* for the project and the project is completed (its teacher told of the
\* release) at most once.
ConcurrentConfirmsPayOnce ==
    \A p \in DOMAIN projects :
        /\ Cardinality(TransfersOf(p)) <= 1
        /\ NoteCount("funds_released", p) <= 1

\* C6: at most one payout transfer is requested per project, a
\* stripe_transfer_id that is set never changes, and a step that answers a
\* confirm-completion call on a project whose transfer id is set rejects the
\* call and changes neither the store nor the gateway.
PayoutAtMostOnce ==
    /\ [](\A p \in DOMAIN projects : Cardinality(TransfersOf(p)) <= 1)
    /\ [][/\ \A p \in DOMAIN projects :
                projects[p].stripe_transfer_id # None
                    => projects'[p].stripe_transfer_id = projects[p].stripe_transfer_id
          /\ (/\ last' # last
              /\ last'.op = "confirm"
              /\ last'.id \in DOMAIN projects
              /\ projects[last'.id].stripe_transfer_id # None)
                 => /\ last'.code >= 400
                    /\ UNCHANGED <<db, gateway>>]_vars

\* C7: a pledge's status changes only from PENDING to CAPTURED or from
\* CAPTURED to REFUNDED.
PledgeStatusOrder ==
    [][\A k \in DOMAIN pledges :
          pledges'[k].status # pledges[k].status
              => <<pledges[k].status, pledges'[k].status>>
                     \in {<<"pending", "captured">>, <<"captured", "refunded">>}]_vars

\* C8: a project becomes SUCCESSFUL only in a checkout-completed step that
\* takes current_funding from below the goal to the goal or over it while the
\* status is FUNDING and that has not happened before, and a project never
\* has a second 'fully funded' notification.
SuccessfulOnce ==
    /\ [](\A p \in DOMAIN projects : NoteCount("fully_funded", p) <= 1)
    /\ [][\A p \in DOMAIN projects :
             (projects[p].status # "successful" /\ projects'[p].status = "successful")
                 => /\ last'.op = "checkout_completed"
                    /\ projects[p].status = "funding"
                    /\ projects[p].current_funding < projects[p].funding_goal
                    /\ projects'[p].current_funding >= projects'[p].funding_goal
                    /\ NoteCount("fully_funded", p) = 0]_vars

\* C9: a pledge request is accepted only for a project whose status is
\* FUNDING, and a request whose checkout creation failed at the gateway
\* leaves the pledge table as it was.
PledgeOnlyWhenFundingNoOrphan ==
    [][last'.op = "create_pledge" =>
          /\ last'.code = 201 => projects[last'.id].status = "funding"
          /\ last'.detail = "stripe_error" => pledges' = pledges]_vars

\* C10: a successful Accept Offer acted on a PENDING offer at the call of the
\* conversation's student; it sets the offer ACCEPTED and the request
\* ACCEPTED, adds exactly one project, in FUNDING, whose funding_goal is the
\* offer price and whose origin_request_id is the request, leaves every
\* conversation of the request CLOSED and the blacklist as it was.
AcceptOfferEffects ==
    [][(last'.op = "accept_offer" /\ last'.code = 200) =>
          LET m == last'.id
              c == messages[m].conversation_id
              r == conversations[c].request_id
              n == Len(projects) + 1
          IN /\ messages[m].offer_status = "pending"
             /\ messages'[m].offer_status = "accepted"
             /\ requests'[r].status = "accepted"
             /\ Len(projects') = n
             /\ \A j \in DOMAIN projects : projects'[j] = projects[j]
             /\ projects'[n].status = "funding"
             /\ projects'[n].funding_goal = messages[m].offer_price
             /\ projects'[n].origin_request_id = r
             /\ \A d \in DOMAIN conversations' :
                   conversations'[d].request_id = r
                       => conversations'[d].status = "closed"
             /\ blacklist' = blacklist]_vars

\* C10 witness: an offer was accepted on a request with two conversations
\* (two teachers); both are closed and no teacher is blacklisted.
AcceptedWithTwoConversations ==
    /\ last = Response("accept_offer", last.id, 200, "")
    /\ Len(conversations) = 2
    /\ conversations[1].request_id = conversations[2].request_id
    /\ conversations[1].teacher_id # conversations[2].teacher_id
    /\ \A d \in DOMAIN conversations : conversations[d].status = "closed"
    /\ blacklist = EmptyBag
    /\ Len(projects) = 1

\* C11: a successful Reject Offer acted on a PENDING offer; it sets that offer
\* REJECTED, closes the offer's conversation, adds one blacklist entry
\* (request, that conversation's teacher), and leaves the request table, every
\* other conversation, every other message and every other blacklist entry as
\* they were.
RejectOfferEffects ==
    [][(last'.op = "reject_offer" /\ last'.code = 200) =>
          LET m == last'.id
              c == messages[m].conversation_id
              entry == <<conversations[c].request_id, conversations[c].teacher_id>>
          IN /\ messages[m].offer_status = "pending"
             /\ messages'[m].offer_status = "rejected"
             /\ \A j \in DOMAIN messages \ {m} : messages'[j] = messages[j]
             /\ DOMAIN messages' = DOMAIN messages
             /\ conversations'[c].status = "closed"
             /\ \A d \in DOMAIN conversations \ {c} : conversations'[d] = conversations[d]
             /\ DOMAIN conversations' = DOMAIN conversations
             /\ blacklist' = blacklist (+) SetToBag({entry})
             /\ requests' = requests
             /\ projects' = projects]_vars

\* C11 witness: teacher A's offer was rejected while teacher B's conversation
\* on the same request is open; only A's conversation is closed and only A
\* is blacklisted.
RejectedWithOtherOpen ==
    /\ last = Response("reject_offer", last.id, 200, "")
    /\ Len(conversations) = 2
    /\ conversations[1].request_id = conversations[2].request_id
    /\ \E c \in {1, 2} :
          /\ conversations[c].status = "closed"
          /\ conversations[3 - c].status = "open"
          /\ blacklist = SetToBag({<<conversations[c].request_id,
                                     conversations[c].teacher_id>>})
    /\ requests[conversations[1].request_id].status = "open"

\* C13: List Requests returns a request to a viewer exactly when the viewer
\* owns it, or it is public and OPEN or NEGOTIATING, or it is targeted at the
\* viewer and OPEN or NEGOTIATING, and the viewer is not blacklisted for it; an
\* owner therefore sees the own request in every status, CANCELLED included
ListFollowsVisibilityRule ==
    \A u \in Users : \A r \in DOMAIN requests :
        (r \in ListRequests(u)) <=>
            /\ \/ requests[r].user_id = u
               \/ requests[r].is_private = FALSE /\ requests[r].status \in {"open", "negotiating"}
               \/ requests[r].target_teacher_id = u /\ requests[r].status \in {"open", "negotiating"}
            /\ CopiesIn(<<r, u>>, blacklist) = 0

\* C14: there is at most one Conversation per (request, teacher), also when two
\* Create Conversation calls of the same teacher interleave, and a
\* conversation's teacher is a TEACHER who does not own the request
OneConversationPerPair ==
    /\ \A c \in DOMAIN conversations : \A d \in DOMAIN conversations :
          (conversations[c].request_id = conversations[d].request_id
           /\ conversations[c].teacher_id = conversations[d].teacher_id) => c = d
    /\ \A c \in DOMAIN conversations :
          /\ UserRole(conversations[c].teacher_id) = "teacher"
          /\ requests[conversations[c].request_id].user_id # conversations[c].teacher_id

\* C12: a blacklist entry (R, T) is never removed, and while it exists T does
\* not see R in List Requests and has no OPEN conversation for R
BlacklistIsPermanent ==
    /\ [](\A e \in BagToSet(blacklist) :
             /\ e[1] \notin ListRequests(e[2])
             /\ \A c \in DOMAIN conversations :
                   (conversations[c].request_id = e[1] /\ conversations[c].teacher_id = e[2])
                       => conversations[c].status # "open")
    /\ [][\A e \in BagToSet(blacklist) : CopiesIn(e, blacklist') >= CopiesIn(e, blacklist)]_vars

\* C15: a Cancel Project that passes the owner-or-admin check on a project that
\* is not COMPLETED, and whose refunds all succeed, leaves every pledge that
\* was CAPTURED as REFUNDED and the project CANCELLED and, when the project has
\* an origin request, that request OPEN, untargeted, public and its teacher
\* blacklisted for it; on a COMPLETED project the call is rejected and changes
\* nothing
CancelProjectEffects ==
    [][(last'.op = "cancel" /\ last'.id \in DOMAIN projects) =>
          LET p == last'.id
              r == projects[p].origin_request_id
              captured == {k \in DOMAIN pledges :
                              pledges[k].project_id = p /\ pledges[k].status = "captured"}
          IN  /\ projects[p].status = "completed" =>
                    /\ last'.code \in {400, 403}
                    /\ UNCHANGED <<db, gateway>>
              /\ (last'.code = 200
                  /\ BagCardinality(refunds') = BagCardinality(refunds) + Cardinality(captured)) =>
                    /\ projects[p].status # "completed"
                    /\ \A k \in captured : pledges'[k].status = "refunded"
                    /\ projects'[p].status = "cancelled"
                    /\ r # None =>
                          /\ requests'[r].status = "open"
                          /\ requests'[r].target_teacher_id = ""
                          /\ requests'[r].is_private = FALSE
                          /\ CopiesIn(<<r, projects[p].teacher_id>>, blacklist') > 0]_vars

\* C15 witness: a cancel call has answered 200 on a project that came from
\* request 1's accepted offer: the project is CANCELLED, its pledge REFUNDED at
\* the gateway, the request OPEN again, untargeted and public, and the
\* project's teacher blacklisted for it
CancelledAndReopened ==
    /\ last = Response("cancel", 1, 200, "")
    /\ projects[1].status = "cancelled"
    /\ projects[1].origin_request_id = 1
    /\ requests[1] = [user_id |-> "s1", status |-> "open", target_teacher_id |-> "",
                      is_private |-> FALSE]
    /\ CopiesIn(<<1, projects[1].teacher_id>>, blacklist) = 1
    /\ \E k \in DOMAIN pledges : pledges[k].status = "refunded"
    /\ BagCardinality(refunds) >= 1
    /\ \A k \in DOMAIN pledges : pledges[k].status # "captured"

\* C16: Accept Offer and Cancel Project are each all-or-nothing: a call either
\* changes nothing, or the whole mutation is there together: the offer and
\* request ACCEPTED with the new project and every conversation of the request
\* closed; the project CANCELLED with every captured pledge refunded and the
\* origin request reopened; also when a broadcast or a gateway call fails
SeamsAreAllOrNothing ==
    [][/\ last'.op = "accept_offer" =>
             \/ UNCHANGED <<db, gateway>>
             \/ LET m == last'.id
                    r == conversations[messages[m].conversation_id].request_id
                IN  /\ messages'[m].offer_status = "accepted"
                    /\ requests'[r].status = "accepted"
                    /\ Len(projects') = Len(projects) + 1
                    /\ projects'[Len(projects')].origin_request_id = r
                    /\ \A c \in DOMAIN conversations :
                          conversations[c].request_id = r => conversations'[c].status = "closed"
       /\ last'.op = "cancel" =>
             \/ UNCHANGED <<db, gateway>>
             \/ LET p == last'.id
                    r == projects[p].origin_request_id
                IN  /\ projects'[p].status = "cancelled"
                    /\ \A k \in DOMAIN pledges :
                          (pledges[k].project_id = p /\ pledges[k].status = "captured")
                              => /\ pledges'[k].status = "refunded"
                                 /\ CopiesIn(pledges[k].payment_intent_id, refunds')
                                       > CopiesIn(pledges[k].payment_intent_id, refunds)
                    /\ r # None => requests'[r].status = "open"]_vars

\* C17: Create Project by a teacher or admin stores funding_goal =
\* price_per_video * num_videos for a series with both fields supplied and
\* num_videos > 0, whatever the price (0 included) and the funding_goal
\* supplied; rejects a series with a field missing or num_videos <= 0; rejects
\* a non-series project with either field supplied; and every project it
\* accepts starts in FUNDING
CreateProjectGoal ==
    [][last'.op = "create_project" =>
          LET in == txns[1].body
              both == in.price_per_video # None /\ in.num_videos # None
          IN  /\ last'.code = 200 =>
                    /\ Len(projects') = Len(projects) + 1
                    /\ projects'[last'.id].status = "funding"
              /\ UserRole(txns[1].u) \in {"teacher", "admin"} =>
                    /\ (in.is_series /\ both /\ in.num_videos > 0) =>
                          /\ last'.code = 200
                          /\ projects'[last'.id].funding_goal
                                = in.price_per_video * in.num_videos
                    /\ (in.is_series /\ (~both \/ in.num_videos <= 0)) =>
                          /\ last'.code = 400
                          /\ UNCHANGED projects
                    /\ (~in.is_series
                        /\ (in.price_per_video # None \/ in.num_videos # None)) =>
                          /\ last'.code = 400
                          /\ UNCHANGED projects]_vars

ConfirmGuardsAndFailures ==
    [][\A u \in Users : \A p \in 1..MaxProjects : \A ok \in BOOLEAN :
          confirm_completion(u, p, ok) =>
              /\ last'.code = 200 =>
                    /\ p \in DOMAIN projects
                    /\ projects[p].status = "pending_confirmation"
                    /\ projects[p].stripe_transfer_id = None
                    /\ \E k \in DOMAIN pledges :
                          /\ pledges[k].project_id = p
                          /\ pledges[k].user_id = u
                          /\ pledges[k].status = "captured"
              /\ (/\ p \in DOMAIN projects
                  /\ projects[p].status = "pending_confirmation"
                  /\ projects[p].stripe_transfer_id = None
                  /\ \E k \in DOMAIN pledges :
                        /\ pledges[k].project_id = p
                        /\ pledges[k].user_id = u
                        /\ pledges[k].status = "captured"
                  /\ \/ ~users[projects[p].teacher_id].stripe_account_id
                     \/ /\ ~ok
                        /\ projects[p].current_funding
                             - (projects[p].current_funding * PLATFORM_FEE_PERCENT) \div 100 > 0) =>
                    /\ last'.code = 400
                    /\ projects' = projects
                    /\ transfers' = transfers]_vars

\* C19 witness: a confirm was rejected because the transfer failed at the
\* gateway, and the project still awaits confirmation without a transfer id
\* while its teacher has a payout account
RejectedPayoutLeavesPending ==
    /\ last = Response("confirm", 1, 400, "payout_failed")
    /\ projects[1].status = "pending_confirmation"
    /\ projects[1].stripe_transfer_id = None
    /\ users["t1"].stripe_account_id
    /\ transfers = <<>>

\* C20: a charge-refunded event that finds a pledge not yet REFUNDED sets it
\* REFUNDED and takes exactly its amount off the project's current_funding; a
\* replayed event, or one for a pledge that Cancel Project already refunded,
\* changes nothing; and current_funding is never negative
RefundOnceNeverNegative ==
    /\ [](\A p \in DOMAIN projects : projects[p].current_funding >= 0)
    /\ [][last'.op = "charge_refunded" =>
             IF last'.detail = "refunded"
             THEN \E k \in DOMAIN pledges :
                     /\ pledges[k].payment_intent_id = last'.id
                     /\ pledges[k].status # "refunded"
                     /\ pledges' = [pledges EXCEPT ![k].status = "refunded"]
                     /\ projects' = [projects EXCEPT
                            ![pledges[k].project_id].current_funding = @ - pledges[k].amount]
             ELSE /\ \A k \in DOMAIN pledges :
                        pledges[k].payment_intent_id = last'.id => pledges[k].status = "refunded"
                  /\ UNCHANGED <<db, gateway>>]_vars

\* C21: the run from a request with offers of 1200 and 1000, through the
\* accepted offer of 1200, the captured pledge of 1200 and the teacher's
\* complete, ends with the project COMPLETED, its goal and funding 1200, the
\* request ACCEPTED, both conversations closed and one transfer asked for
EndToEndRunCompletes ==
    <>(/\ Len(projects) = 1
       /\ projects[1].status = "completed"
       /\ projects[1].funding_goal = 1200
       /\ projects[1].current_funding = 1200
       /\ projects[1].stripe_transfer_id # None
       /\ Len(transfers) = 1
       /\ requests[1].status = "accepted"
       /\ \A c \in DOMAIN conversations : conversations[c].status = "closed")

\* C22: a project's status changes only from FUNDING to SUCCESSFUL (capture
\* webhook), from FUNDING to ON_HOLD (account-updated webhook), from SUCCESSFUL
\* to PENDING_CONFIRMATION (complete), from PENDING_CONFIRMATION to COMPLETED
\* (confirm) and from any status but COMPLETED to CANCELLED (cancel); COMPLETED
\* and CANCELLED are never left
ProjectStatusEdges ==
    [][\A p \in DOMAIN projects :
          projects'[p].status # projects[p].status =>
              \/ /\ projects[p].status = "funding"
                 /\ projects'[p].status = "successful"
                 /\ last'.op = "checkout_completed"
              \/ /\ projects[p].status = "funding"
                 /\ projects'[p].status = "on_hold"
                 /\ last'.op = "account_updated"
              \/ /\ projects[p].status = "successful"
                 /\ projects'[p].status = "pending_confirmation"
                 /\ last'.op = "complete"
              \/ /\ projects[p].status = "pending_confirmation"
                 /\ projects'[p].status = "completed"
                 /\ last'.op = "confirm"
              \/ /\ projects[p].status # "completed"
                 /\ projects'[p].status = "cancelled"
                 /\ last'.op = "cancel"]_vars

\* C23: a request that is CANCELLED or REJECTED keeps that status, and an
\* ACCEPTED request leaves it only for OPEN, by Cancel Project; accepting an
\* offer that is still PENDING does not make a CANCELLED request ACCEPTED
RequestTerminalStatuses ==
    [][\A r \in DOMAIN requests :
          /\ requests[r].status \in {"cancelled", "rejected"} =>
                requests'[r].status = requests[r].status
          /\ (requests[r].status = "accepted" /\ requests'[r].status # "accepted") =>
                /\ requests'[r].status = "open"
                /\ last'.op = "cancel"]_vars

\* C24: Complete Project succeeds only for the project's owner, only from
\* SUCCESSFUL and only with exactly 1 uploaded video (non-series) or exactly
\* num_videos (series); on success the project is PENDING_CONFIRMATION and
\* every backer with a CAPTURED pledge has a new confirmation notification; a
\* call that fails a check leaves projects and notifications as they were
CompleteProjectGuards ==
    [][\A u \in Users : \A p \in 1..MaxProjects :
          complete_project(u, p) =>
              IF last'.code = 200
              THEN /\ p \in DOMAIN projects
                   /\ projects[p].teacher_id = u
                   /\ projects[p].status = "successful"
                   /\ IF projects[p].is_series
                      THEN /\ projects[p].num_videos # None
                           /\ projects[p].videos = projects[p].num_videos
                      ELSE projects[p].videos = 1
                   /\ projects' = [projects EXCEPT ![p].status = "pending_confirmation"]
                   /\ \A k \in DOMAIN pledges :
                         (pledges[k].project_id = p /\ pledges[k].status = "captured") =>
                             CopiesIn(Notification(pledges[k].user_id, "confirm_request", p),
                                      notifications')
                               > CopiesIn(Notification(pledges[k].user_id, "confirm_request", p),
                                          notifications)
                   /\ BagCardinality(notifications') - BagCardinality(notifications)
                         = Cardinality({k \in DOMAIN pledges :
                               pledges[k].project_id = p /\ pledges[k].status = "captured"})
              ELSE /\ projects' = projects
                   /\ notifications' = notifications]_vars

\* C24 witness: the owner's complete call has answered 200 on a series
\* project that promised no videos and has two backers with CAPTURED pledges:
\* the project awaits confirmation and each backer has a confirmation request
CompletedWithTwoBackers ==
    /\ last = Response("complete", 1, 200, "")
    /\ projects[1].status = "pending_confirmation"
    /\ projects[1].is_series
    /\ projects[1].videos = projects[1].num_videos
    /\ Len(pledges) = 2
    /\ \A k \in DOMAIN pledges : pledges[k].status = "captured"
    /\ pledges[1].user_id # pledges[2].user_id
    /\ \A k \in DOMAIN pledges :
          CopiesIn(Notification(pledges[k].user_id, "confirm_request", 1), notifications) = 1

\* C25: Cancel Request is accepted only for the owner or an admin and only
\* from OPEN or NEGOTIATING; it then sets the request CANCELLED and closes
\* every conversation of it, inserts no message and no notification for a
\* conversation whose teacher is blacklisted, and for every other
\* conversation one cancellation message, with one persisted Notification
\* exactly when the teacher is not present in the conversation
CancelRequestEffects ==
    [][\A u \in Users : \A r \in 1..MaxRequests : \A offline \in SUBSET Teachers :
          cancel_request(u, r, offline) =>
              IF /\ r \in DOMAIN requests
                 /\ requests[r].user_id = u \/ UserRole(u) = "admin"
                 /\ requests[r].status \in {"open", "negotiating"}
              THEN LET convs == {c \in DOMAIN conversations :
                                    conversations[c].request_id = r}
                       told == {c \in convs :
                                   CopiesIn(<<r, conversations[c].teacher_id>>, blacklist) = 0}
                   IN  /\ last'.code = 200
                       /\ requests'[r].status = "cancelled"
                       /\ \A c \in convs : conversations'[c].status = "closed"
                       /\ Len(messages') = Len(messages) + Cardinality(told)
                       /\ \A c \in told :
                             \E m \in DOMAIN messages' \ DOMAIN messages :
                                 messages'[m].conversation_id = c
                       /\ \A c \in convs :
                             LET note == Notification(conversations[c].teacher_id,
                                                      "request_cancelled", c)
                             IN  CopiesIn(note, notifications') - CopiesIn(note, notifications)
                                   = IF c \in told /\ conversations[c].teacher_id \in offline
                                     THEN 1 ELSE 0
              ELSE /\ last'.code # 200
                   /\ UNCHANGED <<requests, conversations, messages, notifications>>]_vars

\* C26: a Leave Conversation that succeeds, by the student or by the teacher,
\* inserts one departure message of the leaver, closes that conversation,
\* blacklists the conversation's teacher for its request, and persists one
\* Notification for the other party exactly when that party is not present
\* in the conversation, none when the broadcast reaches them
LeaveEffects ==
    [][\A u \in Users : \A c \in 1..MaxConversations :
       \A present \in BOOLEAN : \A delivered \in BOOLEAN :
          /\ (leave_conversation(u, c, present, delivered) /\ last'.code = 200) =>
                LET note == Notification(conversations[c].teacher_id, "student_left", c)
                IN  /\ u = conversations[c].student_id
                    /\ messages' = Append(messages, NewMessage(c, u, "text"))
                    /\ conversations' = [conversations EXCEPT ![c].status = "closed"]
                    /\ blacklist' = blacklist (+) SetToBag({<<conversations[c].request_id,
                                                              conversations[c].teacher_id>>})
                    /\ notifications' = IF present THEN notifications
                                        ELSE notifications (+) SetToBag({note})
          /\ (teacher_leave_conversation(u, c, present, delivered) /\ last'.code = 200) =>
                LET note == Notification(conversations[c].student_id, "teacher_left", c)
                IN  /\ u = conversations[c].teacher_id
                    /\ messages' = Append(messages, NewMessage(c, u, "text"))
                    /\ conversations' = [conversations EXCEPT ![c].status = "closed"]
                    /\ blacklist' = blacklist (+) SetToBag({<<conversations[c].request_id, u>>})
                    /\ notifications' = IF present THEN notifications
                                        ELSE notifications (+) SetToBag({note})]_vars

\* C26 witness: the student left conversation 1 while its teacher was away
\* (one Notification for that teacher) and the teacher of conversation 2 has
\* just left it with the student present (no Notification): both
\* conversations are closed and both teachers blacklisted
BothPartiesLeft ==
    /\ last = Response("teacher_leave", 2, 200, "")
    /\ Len(conversations) = 2
    /\ \A c \in DOMAIN conversations : conversations[c].status = "closed"
    /\ notifications = SetToBag({Notification(conversations[1].teacher_id, "student_left", 1)})
    /\ blacklist = SetToBag({<<1, conversations[1].teacher_id>>, <<1, conversations[2].teacher_id>>})
    /\ conversations[1].teacher_id # conversations[2].teacher_id
    /\ Len(messages) = 4

\* C27: when the gateway fails to refund a CAPTURED pledge during Cancel
\* Project, that pledge stays CAPTURED and gets no refund notification, every
\* CAPTURED pledge the gateway did refund is REFUNDED with one notification
\* for its backer, and the project is CANCELLED all the same
RefundFailureDoesNotAbort ==
    [][(last'.op = "cancel" /\ last'.code = 200) =>
          LET p == last'.id
              captured == {k \in DOMAIN pledges :
                              pledges[k].project_id = p /\ pledges[k].status = "captured"}
              failed == {k \in captured :
                            CopiesIn(pledges[k].payment_intent_id, refunds')
                              = CopiesIn(pledges[k].payment_intent_id, refunds)}
          IN  /\ projects'[p].status = "cancelled"
              /\ \A k \in failed : pledges'[k].status = "captured"
              /\ \A k \in captured \ failed : pledges'[k].status = "refunded"
              /\ \A u \in Users :
                    CopiesIn(Notification(u, "refunded", p), notifications')
                      - CopiesIn(Notification(u, "refunded", p), notifications)
                      = Cardinality({k \in captured \ failed : pledges[k].user_id = u})]_vars

\* C27 witness: a cancel has answered 200 after the refund of pledge 1 failed
\* and that of pledge 2 went through: pledge 1 is still CAPTURED and its
\* backer has no refund notification, pledge 2 is REFUNDED and its backer has
\* one, the gateway holds the one refund, and the project is CANCELLED
CancelledDespiteFailedRefund ==
    /\ last = Response("cancel", 1, 200, "")
    /\ projects[1].status = "cancelled"
    /\ Len(pledges) = 2
    /\ pledges[1].status = "captured"
    /\ pledges[2].status = "refunded"
    /\ pledges[1].user_id # pledges[2].user_id
    /\ refunds = SetToBag({pledges[2].payment_intent_id})
    /\ CopiesIn(Notification(pledges[1].user_id, "refunded", 1), notifications) = 0
    /\ CopiesIn(Notification(pledges[2].user_id, "refunded", 1), notifications) = 1

\* ------------------------------------------------ payout account events
\* the statuses of the projects in the store when account events arrive
TaughtStatus == {"funding", "successful", "completed"}

\* the store after MaxTaught projects with goal 2 were created by teachers
\* (projects.py:199-225) and moved on by their owners; s1's pledge of 1 on
\* project 1 was captured (pledges.py:171-215); no teacher has started
\* onboarding yet
InitAccount ==
    /\ users = [u \in Users |-> NewUser]
    /\ \E owner \in [1..MaxTaught -> Teachers], status \in [1..MaxTaught -> TaughtStatus] :
          /\ projects = [p \in 1..MaxTaught |->
                            [NewProject(owner[p], 2, None, FALSE, None) EXCEPT
                                !.status = status[p],
                                !.current_funding = IF p = 1 THEN 1 ELSE 0]]
          /\ notifications = SetToBag({Notification(owner[1], "new_pledge", 1)})
    /\ pledges = <<[user_id |-> "s1", project_id |-> 1, amount |-> 1,
                    status |-> "captured", payment_intent_id |-> 1,
                    checkout_session_id |-> 1]>>
    /\ requests = <<>>
    /\ conversations = <<>>
    /\ messages = <<>>
    /\ blacklist = EmptyBag
    /\ transfers = <<>>
    /\ refunds = EmptyBag
    /\ txns = [h \in 1..MaxHandlers |-> Idle]
    /\ last = Response("init", None, 0, "")

\* the accounts an event can name: a teacher's, or one no user holds
Accounts == Teachers \cup {"acct_other"}

Account ==
    \/ \E u \in Teachers : create_stripe_onboarding_link(u)
    \/ \E a \in Accounts, charges \in BOOLEAN, payouts \in BOOLEAN :
          webhook_account_updated(a, charges, payouts)

SpecAccount == InitAccount /\ [][Account]_vars

\* C28: an account-updated event for the account of a known teacher copies the
\* event's charges-enabled and payouts-enabled flags to that teacher; when
\* charges are disabled every project of that teacher in FUNDING becomes
\* ON_HOLD, and every other project row (the teacher's projects in other
\* statuses, other teachers' projects), every pledge and every current_funding
\* stays as it was; an event for an account no user holds changes no row
AccountUpdatedFrame ==
    [][\A a \in Accounts, charges \in BOOLEAN, payouts \in BOOLEAN :
          webhook_account_updated(a, charges, payouts) =>
             IF a \in Users /\ users[IF a \in Users THEN a ELSE "t1"].stripe_account_id
             THEN /\ users' = [users EXCEPT ![a].charges_enabled = charges,
                                            ![a].payouts_enabled = payouts]
                  /\ DOMAIN projects' = DOMAIN projects
                  /\ \A p \in DOMAIN projects :
                        IF ~charges /\ projects[p].teacher_id = a
                                    /\ projects[p].status = "funding"
                        THEN projects'[p] = [projects[p] EXCEPT !.status = "on_hold"]
                        ELSE projects'[p] = projects[p]
                  /\ pledges' = pledges
             ELSE UNCHANGED db]_vars

\* C28 witness: after an event that disabled charges and enabled payouts for
\* t1, t1's FUNDING project 1 is ON_HOLD with its funding of 1, t1's project 2
\* is still SUCCESSFUL, t2's project 3 is still FUNDING and s1's pledge is
\* still CAPTURED
HeldOnlyOwnFundingProjects ==
    /\ last = Response("account_updated", "t1", 200, "updated")
    /\ ~users["t1"].charges_enabled
    /\ users["t1"].payouts_enabled
    /\ projects[1].teacher_id = "t1"
    /\ projects[1].status = "on_hold"
    /\ projects[1].current_funding = 1
    /\ projects[2].teacher_id = "t1"
    /\ projects[2].status = "successful"
    /\ projects[3].teacher_id = "t2"
    /\ projects[3].status = "funding"
    /\ pledges[1].status = "captured"

\* ------------------------------------------------------- offer bodies
\* request bodies of POST /conversations/{id}/offer (schemas.py:155-164) over
\* the fields that conversations.py:461-463 reads
OfferBodies ==
    [offer_price : {2}, is_series : BOOLEAN,
     price_per_video : {None, 0, 1}, num_videos : {None, 2}]

Offering ==
    \/ \E priv \in BOOLEAN : create_request("s1", "", priv)
    \/ \E u \in Teachers, r \in 1..MaxRequests : create_conversation(u, r)
    \/ \E u \in Teachers \cup {"s1"}, c \in 1..MaxConversations, in \in OfferBodies :
          make_offer(u, c, in)
    \/ \E u \in {"s1"}, m \in 1..MaxMessages : reject_offer(u, m)

SpecOffering == Init /\ [][Offering]_vars

\* C29: Make Offer is accepted only from the conversation's teacher and only
\* while the conversation is OPEN; an accepted call appends exactly one OFFER
\* message with offer_status PENDING whose offer_price is
\* price_per_video * num_videos when the offer is a series (both numbers
\* given) and the flat price given when it is not a series; a rejected call
\* appends nothing
MakeOfferPrice ==
    [][\A u \in Teachers \cup {"s1"}, c \in 1..MaxConversations, in \in OfferBodies :
          make_offer(u, c, in) =>
             IF /\ c \in DOMAIN conversations
                /\ u = conversations[IF c \in DOMAIN conversations THEN c ELSE 1].teacher_id
                /\ conversations[IF c \in DOMAIN conversations THEN c ELSE 1].status = "open"
             THEN /\ Len(messages') = Len(messages) + 1
                  /\ SubSeq(messages', 1, Len(messages)) = messages
                  /\ messages'[Len(messages')].conversation_id = c
                  /\ messages'[Len(messages')].message_type = "offer"
                  /\ messages'[Len(messages')].offer_status = "pending"
                  /\ ~in.is_series =>
                        messages'[Len(messages')].offer_price = in.offer_price
                  /\ (in.is_series /\ in.price_per_video # None /\ in.num_videos # None) =>
                        messages'[Len(messages')].offer_price =
                            in.price_per_video * in.num_videos
             ELSE messages' = messages]_vars

\* ------------------------------------------------- webhook deliveries
\* pledges.py:148-157: what construct_event makes of a delivery: an event, a
\* ValueError (payload) or a SignatureVerificationError (signature)
Verdicts == {"ok", "payload", "signature"}

\* every delivery is taken as an event
Unverified(verdict) == TRUE

\* pledges.py:148-151: construct_event returned an event
Verified(verdict) == verdict = "ok"

\* pledges.py:141-215, 266: a delivery that carries a checkout-completed
\* event for correlation id k; raised says whether an exception occurs inside
\* the try block of lines 171-212, whose only commit is line 210, so that the
\* rollback of line 215 discards whatever the session held
stripe_webhook(verdict, k, raised) ==
    IF ~Verified(verdict)
    THEN /\ last' = Response("webhook", None, 400,
                        IF verdict = "payload" THEN "Invalid payload"
                        ELSE "Invalid signature")
         /\ UNCHANGED <<db, gateway, txns>>
    ELSE IF raised
    THEN /\ CheckoutEventPossible(k)
         /\ last' = Response("checkout_completed", k, 200, "error")
         /\ UNCHANGED <<db, gateway, txns>>
    ELSE webhook_checkout_completed(k)

Delivery ==
    \/ \E in \in FlatInputs :
          create_project("t1", in.funding_goal, in.is_series, in.price_per_video,
                         in.num_videos)
    \/ \E u \in Students, p \in 1..MaxProjects, a \in Amounts, ok \in BOOLEAN :
          create_pledge_checkout_session(u, p, a, ok)
    \/ \E verdict \in Verdicts, k \in 1..MaxPledges, raised \in BOOLEAN :
          stripe_webhook(verdict, k, raised)

SpecDelivery == Init /\ [][Delivery]_vars

\* C30: a webhook delivery that fails payload or signature verification is
\* answered with an error (400) and leaves every Pledge, Project, User and
\* Notification row as it was; a checkout-completed event during whose
\* handling an exception occurs applies none of its changes: pledge status
\* and payment reference, the project's current_funding and status, and the
\* notifications all stay as they were
FailedDeliveryChangesNothing ==
    [][\A verdict \in Verdicts, k \in 1..MaxPledges, raised \in BOOLEAN :
          stripe_webhook(verdict, k, raised) =>
             /\ verdict # "ok" =>
                   /\ last'.code = 400
                   /\ UNCHANGED <<pledges, projects, users, notifications>>
             /\ (verdict = "ok" /\ raised) =>
                   UNCHANGED <<pledges, projects, users, notifications>>]_vars

\* C30 witness: an exception occurred while the checkout-completed event of
\* s1's PENDING pledge 1 was handled: the pledge is still PENDING without
\* payment reference, and the project is still FUNDING with no funding and
\* no notification
RolledBackCapture ==
    /\ last = Response("checkout_completed", 1, 200, "error")
    /\ Len(pledges) >= 1
    /\ pledges[1].status = "pending"
    /\ pledges[1].checkout_session_id # None
    /\ pledges[1].payment_intent_id = None
    /\ projects[1].status = "funding"
    /\ projects[1].current_funding = 0
    /\ notifications = EmptyBag

\* ------------------------------------------------------ rejected calls
\* the callers of a request's way through negotiation and funding: its
\* student, another student, the teacher and an admin
Parties == {"s1", "s2", "t1", "admin"}

\* the records of the negotiation and funding tables
records == <<requests, conversations, messages, projects, pledges, blacklist,
             notifications>>

\* the PATCH bodies that move a project on, and one that names a new price
MoveOn ==
    {[status |-> "pending_confirmation", funding_goal |-> None],
     [status |-> "unset", funding_goal |-> 2]}

Rejection ==
    \/ create_request("s1", "", FALSE)
    \/ \E u \in Parties, r \in 1..MaxRequests : create_conversation(u, r)
    \/ \E u \in Parties, c \in 1..MaxConversations : make_offer(u, c, FlatOffer(1))
    \/ \E u \in Parties, m \in 1..MaxMessages : accept_offer(u, m, TRUE)
    \/ \E u \in Parties, m \in 1..MaxMessages : reject_offer(u, m)
    \/ \E u \in Parties, r \in 1..MaxRequests : cancel_request(u, r, {})
    \/ \E p \in 1..MaxProjects, ok \in BOOLEAN :
          create_pledge_checkout_session("s1", p, 1, ok)
    \/ \E k \in 1..MaxPledges : webhook_checkout_completed(k)
    \/ \E u \in Parties, p \in 1..MaxProjects, data \in MoveOn :
          update_project(u, p, data)
    \/ \E u \in Parties, p \in 1..MaxProjects : complete_project(u, p)
    \/ \E u \in Parties, p \in 1..MaxProjects : confirm_completion(u, p, TRUE)
    \/ \E u \in Parties, p \in 1..MaxProjects :
          cancel_project(u, p, IF p \in DOMAIN projects THEN CapturedOf(p) ELSE {})

SpecRejection == Init /\ [][Rejection]_vars

\* C31: a negotiation or funding call that is answered with a not-found (404),
\* authorization (403) or precondition (400) error leaves every Request,
\* Conversation, Message, Project, Pledge, RequestBlacklist and Notification
\* row as it was; in particular a pledge on a missing project or on a project
\* that is not in FUNDING is such a call (a 400 that reports a failure of the
\* payment gateway is not a precondition error)
RejectedCallsChangeNothing ==
    [][/\ (\/ last'.code \in {403, 404}
           \/ (last'.code = 400 /\ last'.detail \notin {"stripe_error", "payout_failed"}))
          => UNCHANGED records
       /\ \A p \in 1..MaxProjects, ok \in BOOLEAN :
             (/\ create_pledge_checkout_session("s1", p, 1, ok)
              /\ IF p \in DOMAIN projects THEN projects[p].status # "funding" ELSE TRUE)
             => (last'.code \in {400, 404} /\ UNCHANGED records)]_vars

\* C31 witness: teacher t1's project from s1's accepted request holds a
\* CAPTURED pledge and was cancelled, and the pledge that s1 then attempted
\* on the CANCELLED project was refused for its status
PledgeOnCancelledRefused ==
    /\ last = Response("create_pledge", 1, 400, "not_funding")
    /\ Len(projects) = 1
    /\ projects[1].status = "cancelled"
    /\ projects[1].origin_request_id = 1
    /\ Len(pledges) = 1
    /\ pledges[1].status = "refunded"
    /\ requests[1].status = "open"

\* ------------------------------------------- accept-offer, send by send
\* accept_offer is a coroutine: it gives way at each await of a broadcast
\* (conversations.py:555, 563) and nowhere else.

\* an event put in front of the events sent so far
PublishedInFront(log, type, channel) == <<[type |-> type, channel |-> channel]>> \o log

\* conversations.py:39-42: broadcast_to_conversation called for the channel of
\* a conversation, after the events this handler sent before
Published(log, type, channel) == Append(log, [type |-> type, channel |-> channel])

\* conversations.py:520-552: handler h checks the offer, marks offer and
\* request in its session and flushes the new project
accept_begin(h, u, m) ==
    /\ txns[h] = Idle
    /\ IF m \notin DOMAIN messages \/ messages[m].message_type # "offer"
       THEN /\ last' = Response("accept_offer", m, 404, "")
            /\ UNCHANGED txns
       ELSE IF u # conversations[messages[m].conversation_id].student_id
       THEN /\ last' = Response("accept_offer", m, 403, "")
            /\ UNCHANGED txns
       ELSE IF messages[m].offer_status # "pending"
       THEN /\ last' = Response("accept_offer", m, 400, "")
            /\ UNCHANGED txns
       ELSE /\ Len(projects) < MaxOffered
            /\ txns' = [txns EXCEPT ![h] =
                   [op |-> "accept_offer", pc |-> "flushed", m |-> m,
                    c |-> messages[m].conversation_id,
                    r |-> conversations[messages[m].conversation_id].request_id,
                    todo |-> {}, published |-> <<>>]]
            /\ UNCHANGED last
    /\ UNCHANGED <<db, gateway>>

\* conversations.py:555-558: the OFFER_ACCEPTED broadcast on the accepted
\* conversation's channel, then the select of the request's conversations;
\* a send that raises ends the handler and its session without commit
accept_publish(h, delivered) ==
    /\ txns[h].op = "accept_offer"
    /\ txns[h].pc = "flushed"
    /\ IF delivered
       THEN /\ txns' = [txns EXCEPT
                   ![h].published = Published(@, "OFFER_ACCEPTED", txns[h].c),
                   ![h].todo = ConversationsOf(txns[h].r),
                   ![h].pc = "closing"]
            /\ UNCHANGED last
       ELSE /\ txns' = [txns EXCEPT ![h] = Idle]
            /\ last' = Response("accept_offer", txns[h].m, 500, "")
    /\ UNCHANGED <<db, gateway>>

\* conversations.py:559-563: one turn of the loop, for a conversation d of the
\* rows selected, in the order the select returned them
accept_close(h, d, delivered) ==
    /\ txns[h].op = "accept_offer"
    /\ txns[h].pc = "closing"
    /\ d \in txns[h].todo
    /\ IF delivered
       THEN /\ txns' = [txns EXCEPT
                   ![h].published = Published(@, "CONVERSATION_CLOSED", d),
                   ![h].todo = @ \ {d}]
            /\ UNCHANGED last
       ELSE /\ txns' = [txns EXCEPT ![h] = Idle]
            /\ last' = Response("accept_offer", txns[h].m, 500, "")
    /\ UNCHANGED <<db, gateway>>

\* conversations.py:565-568: the commit after the last turn of the loop: the
\* offer, the request, the project and the selected conversations are written
accept_commit(h) ==
    /\ txns[h].op = "accept_offer"
    /\ txns[h].pc = "closing"
    /\ txns[h].todo = {}
    /\ Len(projects) < MaxOffered
    /\ messages' = [messages EXCEPT ![txns[h].m].offer_status = "accepted"]
    /\ requests' = [requests EXCEPT ![txns[h].r].status = "accepted"]
    /\ projects' = Append(projects,
                       ProjectFromOffer(messages[txns[h].m], conversations[txns[h].c]))
    /\ conversations' =
          [d \in DOMAIN conversations |->
              IF \E i \in DOMAIN txns[h].published :
                    txns[h].published[i] = [type |-> "CONVERSATION_CLOSED", channel |-> d]
              THEN [conversations[d] EXCEPT !.status = "closed"]
              ELSE conversations[d]]
    /\ last' = Response("accept_offer", txns[h].m, 200, "")
    /\ txns' = [txns EXCEPT ![h] = Idle]
    /\ UNCHANGED <<users, pledges, blacklist, notifications, gateway>>

Accepting ==
    \/ create_request("s1", "", FALSE)
    \/ \E u \in Teachers, r \in 1..MaxRequests : create_conversation(u, r)
    \/ \E u \in Teachers, c \in 1..MaxConversations : make_offer(u, c, FlatOffer(1))
    \/ \E h \in 1..MaxHandlers, u \in {"s1", "t1"}, m \in 1..MaxMessages :
          accept_begin(h, u, m)
    \/ \E h \in 1..MaxHandlers, delivered \in BOOLEAN : accept_publish(h, delivered)
    \/ \E h \in 1..MaxHandlers, d \in 1..MaxConversations, delivered \in BOOLEAN :
          accept_close(h, d, delivered)
    \/ \E h \in 1..MaxHandlers : accept_commit(h)

SpecAccepting == Init /\ [][Accepting]_vars

\* C32: among the events an accept-offer call has published so far, every
\* CONVERSATION_CLOSED event, on whichever conversation of the request, comes
\* after the OFFER_ACCEPTED event on the channel of the accepted conversation
AcceptedBeforeClosed ==
    \A h \in DOMAIN txns :
        txns[h].op = "accept_offer" =>
            \A i \in DOMAIN txns[h].published :
                txns[h].published[i].type = "CONVERSATION_CLOSED" =>
                    \E j \in 1..(i - 1) :
                        txns[h].published[j] =
                            [type |-> "OFFER_ACCEPTED", channel |-> txns[h].c]

\* C32 witness: the call that accepts the offer of conversation 1 has
\* published OFFER_ACCEPTED on channel 1 and then CONVERSATION_CLOSED on the
\* channels of both conversations of the request, and is about to commit
AcceptedThenBothClosed ==
    \E h \in DOMAIN txns :
        /\ txns[h].op = "accept_offer"
        /\ txns[h].c = 1
        /\ Len(txns[h].published) = 3
        /\ txns[h].published[1] = [type |-> "OFFER_ACCEPTED", channel |-> 1]
        /\ {txns[h].published[2].channel, txns[h].published[3].channel} = {1, 2}
        /\ txns[h].published[2].type = "CONVERSATION_CLOSED"
        /\ txns[h].published[3].type = "CONVERSATION_CLOSED"
        /\ txns[h].todo = {}

\* ------------------------------------------------ users.py: delete account
\* users.py:110-127: the placeholder user that takes over a deleted user's rows
Deleted == "deleted"

\* users.py:130-139: the projects that a deleted teacher leaves uncancelled
LiveProjectsOf(u) ==
    {p \in DOMAIN projects :
        projects[p].teacher_id = u /\ projects[p].status \notin {"completed", "cancelled"}}

\* projects.py:125-126: project p came from a request that still exists
FromRequest(p) ==
    projects[p].origin_request_id # None /\ projects[p].origin_request_id \in DOMAIN requests

\* projects.py:111-133: the notifications of cancelling each project of L
RECURSIVE DeletionNotes(_, _)
DeletionNotes(L, ok) ==
    IF L = {} THEN EmptyBag
    ELSE LET p == CHOOSE y \in L : TRUE
         IN BackerNotes(CapturedOf(p) \cap ok, "refunded", p)
               (+) (IF FromRequest(p)
                    THEN SetToBag({Notification(requests[projects[p].origin_request_id].user_id,
                                                "request_reopened", p)})
                    ELSE EmptyBag)
               (+) DeletionNotes(L \ {p}, ok)

\* projects.py:135-141: the blacklist entries of cancelling each project of L
RECURSIVE DeletionBlacklist(_)
DeletionBlacklist(L) ==
    IF L = {} THEN EmptyBag
    ELSE LET p == CHOOSE y \in L : TRUE
         IN (IF FromRequest(p)
             THEN SetToBag({<<projects[p].origin_request_id, projects[p].teacher_id>>})
             ELSE EmptyBag)
               (+) DeletionBlacklist(L \ {p})

\* a pledge handed over and marked REFUNDED
ReassignedAndVoided(row, u) ==
    IF row.user_id = u THEN [row EXCEPT !.user_id = Deleted, !.status = "refunded"] ELSE row

\* users.py:147-149: a pledge of the deleted user is handed to the placeholder
ReassignedPledge(row, u) ==
    IF row.user_id = u THEN [row EXCEPT !.user_id = Deleted] ELSE row

\* users.py:107-200; ok are the pledges whose refund the gateway performs
delete_me(u, ok) ==
    LET L == IF UserRole(u) = "teacher" THEN LiveProjectsOf(u) ELSE {}
        refunded == {k \in DOMAIN pledges :
                        /\ pledges[k].project_id \in L
                        /\ pledges[k].status = "captured"
                        /\ k \in ok}
        notes == DeletionNotes(L, ok)
        origins == {projects[p].origin_request_id : p \in {q \in L : FromRequest(q)}}
    IN  /\ ok \subseteq {k \in DOMAIN pledges : pledges[k].status = "captured"}
        /\ NotifRoom(BagCardinality(notes))
        /\ BagCardinality(blacklist) + BagCardinality(DeletionBlacklist(L)) <= MaxBlacklist
        /\ pledges' = [k \in DOMAIN pledges |->
                          ReassignedPledge(
                              IF pledges[k].project_id \in L
                              THEN RefundLoop(pledges, pledges[k].project_id, ok)[k]
                              ELSE pledges[k], u)]
        /\ refunds' = refunds (+) SetToBag({pledges[k].payment_intent_id : k \in refunded})
        /\ projects' = [p \in DOMAIN projects |->
                           IF projects[p].teacher_id = u
                           THEN [(IF p \in L THEN Cancelled(projects[p]) ELSE projects[p])
                                    EXCEPT !.teacher_id = Deleted]
                           ELSE projects[p]]
        /\ requests' = [r \in DOMAIN requests |->
                           LET row == IF r \in origins THEN Reopened(requests, r)[r]
                                      ELSE requests[r]
                           IN IF row.user_id = u THEN [row EXCEPT !.user_id = Deleted]
                              ELSE row]
        /\ blacklist' = blacklist (+) DeletionBlacklist(L)
        /\ notifications' =
              BagOfAll(LAMBDA n : IF n.user_id = u THEN [n EXCEPT !.user_id = Deleted] ELSE n,
                       notifications (+) notes)
        /\ conversations' = [c \in DOMAIN conversations |->
              [conversations[c] EXCEPT
                  !.student_id = IF @ = u THEN Deleted ELSE @,
                  !.teacher_id = IF @ = u THEN Deleted ELSE @]]
        /\ messages' = [m \in DOMAIN messages |->
              [messages[m] EXCEPT !.sender_id = IF @ = u THEN Deleted ELSE @]]
        /\ users' = [users EXCEPT ![u].stripe_account_id = FALSE]
        /\ last' = Response("delete_me", None, 204, "")
        /\ UNCHANGED <<transfers, txns>>

PledgeLife ==
    \/ \E in \in FlatInputs :
          create_project("t1", in.funding_goal, in.is_series, in.price_per_video,
                         in.num_videos)
    \/ \E u \in Students, p \in 1..MaxProjects, a \in Amounts, ok \in BOOLEAN :
          create_pledge_checkout_session(u, p, a, ok)
    \/ \E k \in 1..MaxPledges : webhook_checkout_completed(k)
    \/ \E i \in (1..MaxPledges) \cup {None} : webhook_charge_refunded(i)
    \/ \E u \in {"t1", "s1"}, p \in 1..MaxProjects, data \in PatchInputs :
          update_project(u, p, data)
    \/ \E u \in {"t1", "admin"}, p \in 1..MaxProjects, ok \in SUBSET (1..MaxPledges) :
          cancel_project(u, p, ok)
    \/ \E u \in {"t1", "s1"}, ok \in SUBSET (1..MaxPledges) : delete_me(u, ok)

SpecPledgeLife == Init /\ [][PledgeLife]_vars

\* C33: a pledge's amount never changes once the pledge exists, and a
\* pledge's status changes only in a step of the checkout-completed webhook
\* (PENDING to CAPTURED), of the charge-refunded webhook (to REFUNDED) or of
\* Cancel Project (CAPTURED to REFUNDED, the project CANCELLED); no other
\* operation changes the amount or the status of a pledge
PledgeWrittenByThreeOperations ==
    [][\A k \in DOMAIN pledges :
          /\ k \in DOMAIN pledges'
          /\ pledges'[k].amount = pledges[k].amount
          /\ pledges'[k].status # pledges[k].status =>
                \/ /\ last'.op = "checkout_completed"
                   /\ pledges[k].status = "pending"
                   /\ pledges'[k].status = "captured"
                \/ /\ last'.op = "charge_refunded"
                   /\ pledges'[k].status = "refunded"
                \/ /\ last'.op = "cancel"
                   /\ pledges[k].status = "captured"
                   /\ pledges'[k].status = "refunded"
                   /\ projects'[pledges[k].project_id].status = "cancelled"]_vars

\* C33 as the code has it: the amount never changes, and the status changes
\* only by the two webhooks or by the refund of the cancellation logic, which
\* runs in Cancel Project and, for every project a teacher leaves
\* uncancelled, when that teacher deletes the account; the deletion of an
\* account changes the status of no other pledge
PledgeWrittenByWebhooksAndCancellation ==
    [][\A k \in DOMAIN pledges :
          /\ k \in DOMAIN pledges'
          /\ pledges'[k].amount = pledges[k].amount
          /\ pledges'[k].status # pledges[k].status =>
                \/ /\ last'.op = "checkout_completed"
                   /\ pledges[k].status = "pending"
                   /\ pledges'[k].status = "captured"
                \/ /\ last'.op = "charge_refunded"
                   /\ pledges'[k].status = "refunded"
                \/ /\ last'.op \in {"cancel", "delete_me"}
                   /\ pledges[k].status = "captured"
                   /\ pledges'[k].status = "refunded"
                   /\ projects'[pledges[k].project_id].status = "cancelled"
                   /\ last'.op = "delete_me" =>
                         /\ projects[pledges[k].project_id].status
                               \notin {"completed", "cancelled"}
                         /\ projects'[pledges[k].project_id].teacher_id = Deleted]_vars

\* C33 witness: teacher t1 deleted the account while project 1 held s1's
\* CAPTURED pledge: the project is CANCELLED under the placeholder user and
\* the pledge is REFUNDED with its amount, still s1's
RefundedByAccountDeletion ==
    /\ last = Response("delete_me", None, 204, "")
    /\ Len(projects) = 1
    /\ projects[1].teacher_id = Deleted
    /\ projects[1].status = "cancelled"
    /\ Len(pledges) >= 1
    /\ pledges[1].user_id = "s1"
    /\ pledges[1].status = "refunded"
    /\ pledges[1].amount = 1
    /\ CopiesIn(1, refunds) = 1

\* C34: a pledge that is PENDING while its project is CANCELLED never becomes
\* CAPTURED, and no step raises the current_funding of a CANCELLED project:
\* a CANCELLED project holds no CAPTURED pledge other than those whose refund
\* Cancel Project attempted
NoCaptureAfterCancellation ==
    [][\A k \in DOMAIN pledges :
          (/\ pledges[k].status = "pending"
           /\ projects[pledges[k].project_id].status = "cancelled"
           /\ projects'[pledges[k].project_id].status = "cancelled")
          => /\ pledges'[k].status # "captured"
             /\ projects'[pledges[k].project_id].current_funding
                   <= projects[pledges[k].project_id].current_funding]_vars

\* conversations.py:514-552: an accept-offer call that arrives when no other
\* is under way
accept_in_turn(h, u, m) ==
    /\ Quiescent
    /\ accept_begin(h, u, m)

AcceptingInTurn ==
    \/ create_request("s1", "", FALSE)
    \/ \E u \in Teachers, r \in 1..MaxRequests : create_conversation(u, r)
    \/ \E u \in Teachers, c \in 1..MaxConversations : make_offer(u, c, FlatOffer(1))
    \/ \E h \in 1..MaxHandlers, u \in {"s1", "t1"}, m \in 1..MaxMessages :
          accept_in_turn(h, u, m)
    \/ \E h \in 1..MaxHandlers, delivered \in BOOLEAN : accept_publish(h, delivered)
    \/ \E h \in 1..MaxHandlers, d \in 1..MaxConversations, delivered \in BOOLEAN :
          accept_close(h, d, delivered)
    \/ \E h \in 1..MaxHandlers : accept_commit(h)

SpecAcceptingInTurn == Init /\ [][AcceptingInTurn]_vars

\* C35: for every request, at most one project with that origin_request_id
\* is in a status other than CANCELLED, and while the request is ACCEPTED at
\* most one offer of its conversations is ACCEPTED: once an offer was
\* accepted, no other offer of the request that is still PENDING can be
\* accepted into a second live project
OneLiveProjectPerRequest ==
    \A r \in DOMAIN requests :
        /\ Cardinality({p \in DOMAIN projects :
                           /\ projects[p].origin_request_id = r
                           /\ projects[p].status # "cancelled"}) <= 1
        /\ requests[r].status = "accepted" =>
              Cardinality({m \in DOMAIN messages :
                              /\ messages[m].message_type = "offer"
                              /\ messages[m].offer_status = "accepted"
                              /\ conversations[messages[m].conversation_id].request_id = r}) <= 1

\* C36: a request that is ACCEPTED or CANCELLED has no OPEN conversation: once
\* Accept Offer or Cancel Request has closed the request's conversations, no
\* call, Create Conversation by a teacher who had none included, leaves an
\* OPEN conversation for that request
SettledRequestHasNoOpenConversation ==
    \A c \in DOMAIN conversations :
        requests[conversations[c].request_id].status \in {"accepted", "cancelled"}
            => conversations[c].status = "closed"

\* C37: Cancel Project on a project that is already CANCELLED changes
\* nothing: the originating request keeps its status, no blacklist entry and
\* no notification is added, no pledge changes and no refund is issued
CancelOfCancelledChangesNothing ==
    [][(/\ last'.op = "cancel"
        /\ last'.id \in DOMAIN projects
        /\ projects[IF last'.id \in DOMAIN projects THEN last'.id ELSE 1].status = "cancelled")
       => UNCHANGED <<projects, pledges, requests, blacklist, notifications, refunds>>]_vars

\* C38: a conversation that is CLOSED stays CLOSED and gains no message,
\* whichever call is made (make-offer, leave by the student or the teacher,
\* cancel-request), and a leave on a conversation that is already CLOSED adds
\* no blacklist entry
ClosedConversationIsFrozen ==
    [][\A c \in DOMAIN conversations :
          conversations[c].status = "closed" =>
             /\ conversations'[c].status = "closed"
             /\ Cardinality({m \in DOMAIN messages' : messages'[m].conversation_id = c})
                   = Cardinality({m \in DOMAIN messages : messages[m].conversation_id = c})
             /\ (last'.op \in {"leave", "teacher_leave"} /\ last'.id = c)
                   => blacklist' = blacklist]_vars

\* C39: every COMPLETED project has stripe_transfer_id set: no project
\* becomes COMPLETED without a payout transfer, whatever current_funding was
\* at the confirmation, a payout amount of 0 included
CompletedHasTransfer ==
    \A p \in DOMAIN projects :
        projects[p].status = "completed" => projects[p].stripe_transfer_id # None
====
